---- MODULE Spec2Model ----
(***************************************************************************)
(* VisionSpeak image pre-processing (src/image_processor.py).              *)
(*                                                                         *)
(* An ImageProcessor holds three fields (original_image, processed_image,  *)
(* grayscale_image).  process_image runs its stages one after the other on *)
(* local variables; every invocation has a frame (its locals and its       *)
(* position), and several invocations may share the one ImageProcessor, as *)
(* the worker threads of src/gui.py do.                                    *)
(*                                                                         *)
(* An image is a record: shape is what numpy's .shape gives, px holds the  *)
(* samples at the model's resolution (GridH x GridW), on which the filters *)
(* and estimators compute.  A 3-channel sample is a triple <<b, g, r>>.    *)
(***************************************************************************)
EXTENDS Integers, Sequences, FiniteSets, TLC

VARIABLES
    original_image,     \* self.original_image
    processed_image,    \* self.processed_image
    grayscale_image,    \* self.grayscale_image
    frame,              \* invocation -> the locals of its process_image call
    call,               \* the last direct call of a method: its arguments and result
    gui,                \* the attributes of the VisionSpeakApp and its background tasks
    tts                 \* the attributes of the TTSEngine and its speech thread

vars == <<original_image, processed_image, grayscale_image, frame, call, gui, tts>>

(***************************************************************************)
(* Bounds of the model.                                                    *)
(***************************************************************************)
GridH == 4
GridW == 4

Rows == 0 .. (GridH - 1)
Cols == 0 .. (GridW - 1)
Cells == Rows \X Cols

(***************************************************************************)
(* Arithmetic helpers.                                                     *)
(***************************************************************************)
Abs(x) == IF x < 0 THEN -x ELSE x
Min2(a, b) == IF a < b THEN a ELSE b
Max2(a, b) == IF a > b THEN a ELSE b

\* floor(n / d) for d > 0, also for negative n
FloorDiv(n, d) == IF n >= 0 THEN n \div d ELSE -((-n + d - 1) \div d)

\* n / d (d > 0) rounded to the nearest integer, ties to even (cvRound, np.rint)
RoundDiv(n, d) ==
    LET Nearest(q, r) == IF 2 * r < d THEN q
                         ELSE IF 2 * r > d THEN q + 1
                         ELSE IF q % 2 = 0 THEN q ELSE q + 1
    IN  CHOOSE x \in {Nearest(q, m - q * d) : q \in {FloorDiv(m, d) : m \in {n}}, m \in {n}} : TRUE

\* saturate_cast<uchar>
Saturate(x) == IF x < 0 THEN 0 ELSE IF x > 255 THEN 255 ELSE x

\* BORDER_REFLECT_101 (cv2's default border): index i on an axis of n samples
Reflect101(i, n) ==
    IF n = 1 THEN 0
    ELSE LET p == 2 * (n - 1)
             m == ((i % p) + p) % p
         IN  IF m < n THEN m ELSE p - m

\* BORDER_REPLICATE
Replicate(i, n) == IF i < 0 THEN 0 ELSE IF i > n - 1 THEN n - 1 ELSE i

\* the sum of F(i) for i in lo .. hi
SumRange(lo, hi, F(_)) ==
    LET S[i \in lo - 1 .. hi] == IF i < lo THEN 0 ELSE S[i - 1] + F(i)
    IN  S[hi]

\* the sum of f over all cells of the grid
SumCells(f) ==
    LET Row(r) == LET At(c) == f[<<r, c>>] IN SumRange(0, GridW - 1, At)
    IN  SumRange(0, GridH - 1, Row)

(***************************************************************************)
(* Images.                                                                 *)
(***************************************************************************)
None == [kind |-> "None"]

\* an array holds its samples: they are computed when the array is made
NdArray(shape, px) ==
    CHOOSE array \in {[kind |-> "ndarray", shape |-> shape, px |-> px]} : array.px = array.px

IsNone(x) == x.kind = "None"

\* an array without samples: one of its dimensions is 0
EmptyArray(shape) == [kind |-> "ndarray", shape |-> shape, px |-> << >>]

\* image.size == 0
IsEmpty(image) == \E i \in 1 .. Len(image.shape) : image.shape[i] = 0

\* float('nan'), the quotient 0 / 0: no comparison with it is true
NaN == [num |-> 0, den |-> 0]

\* numpy: the number of samples of a single-channel array at the model's resolution
Size == GridH * GridW

\* np.mean(image) < k, for a single-channel image
MeanBelow(image, k) == SumCells(image.px) < k * Size

(***************************************************************************)
(* cv2.cvtColor(image, cv2.COLOR_BGR2GRAY): the 8-bit fixed-point luma     *)
(* (R 4899, G 9617, B 1868, 14 bits); a copy for a single-channel image.   *)
(***************************************************************************)
Luma(bgr) == (bgr[1] * 1868 + bgr[2] * 9617 + bgr[3] * 4899 + 8192) \div 16384

CvtColorBGR2GRAY(image) ==
    NdArray(<<image.shape[1], image.shape[2]>>, [rc \in Cells |-> Luma(image.px[rc])])

(***************************************************************************)
(* cv2.bitwise_not on 8-bit samples.                                       *)
(***************************************************************************)
\* a variant of BitwiseNot that negates the sample as a signed byte would be (256 - x)
NegateSaturated(image) == NdArray(image.shape, [rc \in Cells |-> Saturate(256 - image.px[rc])])

BitwiseNot(image) == NdArray(image.shape, [rc \in Cells |-> 255 - image.px[rc]])

(***************************************************************************)
(* Bicubic interpolation, cv2's kernel (a = -3/4).  CubicNum(k, den) are   *)
(* the four tap weights at the fractional offset k/den, each scaled by     *)
(* 4 * den^3; they add up to 4 * den^3.                                    *)
(***************************************************************************)
CubicNum(k, den) ==
    LET j  == den - k
        w1 == (5 * k - 9 * den) * k * k + 4 * den * den * den
        w2 == (5 * j - 9 * den) * j * j + 4 * den * den * den
        \* ((a(t+1) - 5a)(t+1) + 8a)(t+1) - 4a with a = -3/4, t = k/den
        t1 == k + den
        w0 == (-3 * t1 + 15 * den) * t1 * t1 - 24 * den * den * t1 + 12 * den * den * den
    IN  <<w0, w1, w2, 4 * den * den * den - w0 - w1 - w2>>

(***************************************************************************)
(* cv2.resize(image, (new_width, new_height), interpolation=INTER_CUBIC):  *)
(* the result has the extent asked for.  At the model's resolution source  *)
(* and result are sampled on the same GridH x GridW lattice, so that the   *)
(* cubic taps fall on the source samples themselves (the tap weights at    *)
(* the offset 0 are 0, 1, 0, 0).                                           *)
(***************************************************************************)
RECURSIVE Gcd(_, _)
Gcd(a, b) == IF b = 0 THEN a ELSE Gcd(b, a % b)

ResizeCubic(image, new_width, new_height) ==
    LET w == CubicNum(0, 1)
    IN  NdArray(<<new_height, new_width>>,
                [rc \in Cells |-> Saturate(RoundDiv(w[2] * image.px[rc], 4))])

(***************************************************************************)
(* cv2.Laplacian(image, cv2.CV_64F): aperture 1, the 3x3 kernel            *)
(* [0 1 0; 1 -4 1; 0 1 0], BORDER_REFLECT_101.  Returns the responses.     *)
(***************************************************************************)
Laplacian(image) ==
    [rc \in Cells |->
        image.px[<<Reflect101(rc[1] - 1, GridH), rc[2]>>]
      + image.px[<<Reflect101(rc[1] + 1, GridH), rc[2]>>]
      + image.px[<<rc[1], Reflect101(rc[2] - 1, GridW)>>]
      + image.px[<<rc[1], Reflect101(rc[2] + 1, GridW)>>]
      - 4 * image.px[rc]]

\* ndarray.var() (population variance), as the fraction num/den
Var(f) ==
    LET s  == SumCells(f)
        s2 == SumCells([rc \in Cells |-> f[rc] * f[rc]])
    IN  [num |-> Size * s2 - s * s, den |-> Size * Size]

\* comparisons of a fraction q (den > 0) with an integer k
Lt(q, k) == q.num < k * q.den
Gt(q, k) == q.num > k * q.den

(***************************************************************************)
(* cv2.medianBlur(image, 5): the median of the 5x5 neighbourhood,          *)
(* BORDER_REPLICATE.                                                       *)
(***************************************************************************)
MedianBlur5(image) ==
    LET Px(rc) ==
            LET v == [k \in 0 .. 24 |->
                        image.px[<<Replicate(rc[1] + (k \div 5) - 2, GridH),
                                   Replicate(rc[2] + (k % 5) - 2, GridW)>>]]
            IN  CHOOSE m \in {v[k] : k \in 0 .. 24} :
                    /\ Cardinality({k \in 0 .. 24 : v[k] <= m}) >= 13
                    /\ Cardinality({k \in 0 .. 24 : v[k] < m}) <= 12
    IN  NdArray(image.shape, [rc \in Cells |-> Px(rc)])

(***************************************************************************)
(* cv2.bilateralFilter(image, 9, 75, 75): the average over the disc of     *)
(* radius 4 (BORDER_REFLECT_101), each sample weighted by                  *)
(* exp(-dist^2 / (2 * 75^2)) * exp(-diff^2 / (2 * 75^2)).                  *)
(* BilateralColorWeights[d + 1] is 1024 * exp(-d^2 / 11250), rounded.      *)
(***************************************************************************)
BilateralColorWeights ==
    << 1024, 1024, 1024, 1023, 1023, 1022, 1021, 1020, 1018, 1017, 1015, 1013, 1011, 1009, 1006, 1004,
       1001, 998, 995, 992, 988, 985, 981, 977, 973, 969, 964, 960, 955, 950, 945, 940,
       935, 930, 924, 918, 913, 907, 901, 895, 888, 882, 875, 869, 862, 855, 848, 841,
       834, 827, 820, 813, 805, 798, 790, 783, 775, 767, 759, 751, 744, 736, 728, 720,
       712, 703, 695, 687, 679, 671, 662, 654, 646, 638, 629, 621, 613, 605, 596, 588,
       580, 572, 563, 555, 547, 539, 531, 523, 514, 506, 498, 490, 483, 475, 467, 459,
       451, 444, 436, 428, 421, 414, 406, 399, 392, 384, 377, 370, 363, 356, 349, 343,
       336, 329, 323, 316, 310, 303, 297, 291, 285, 279, 273, 267, 261, 255, 250, 244,
       239, 233, 228, 223, 218, 213, 208, 203, 198, 193, 188, 184, 179, 175, 171, 166,
       162, 158, 154, 150, 146, 142, 139, 135, 131, 128, 124, 121, 118, 114, 111, 108,
       105, 102, 99, 97, 94, 91, 88, 86, 83, 81, 78, 76, 74, 72, 69, 67,
       65, 63, 61, 59, 57, 56, 54, 52, 51, 49, 47, 46, 44, 43, 41, 40,
       39, 37, 36, 35, 34, 33, 31, 30, 29, 28, 27, 26, 25, 24, 24, 23,
       22, 21, 20, 20, 19, 18, 17, 17, 16, 16, 15, 14, 14, 13, 13, 12,
       12, 11, 11, 10, 10, 10, 9, 9, 9, 8, 8, 8, 7, 7, 7, 6,
       6, 6, 6, 5, 5, 5, 5, 5, 4, 4, 4, 4, 4, 3, 3, 3 >>

\* 1024 * exp(-d2 / 11250) for a squared distance d2 <= 16, rounded
BilateralSpaceWeight(d2) == IF d2 <= 5 THEN 1024 ELSE 1023

BilateralFilter(image) ==
    LET Disc == {o \in (-4 .. 4) \X (-4 .. 4) : o[1] * o[1] + o[2] * o[2] <= 16}
        Px(rc) ==
            LET At(o) == image.px[<<Reflect101(rc[1] + o[1], GridH),
                                    Reflect101(rc[2] + o[2], GridW)>>]
                W(o)  == (BilateralSpaceWeight(o[1] * o[1] + o[2] * o[2])
                          * BilateralColorWeights[Abs(At(o) - image.px[rc]) + 1]) \div 1024
                Line(i) == LET L(j) == IF <<i, j>> \in Disc THEN W(<<i, j>>) * At(<<i, j>>) ELSE 0
                           IN  SumRange(-4, 4, L)
                WLine(i) == LET L(j) == IF <<i, j>> \in Disc THEN W(<<i, j>>) ELSE 0
                            IN  SumRange(-4, 4, L)
            IN  RoundDiv(SumRange(-4, 4, Line), SumRange(-4, 4, WLine))
    IN  NdArray(image.shape, [rc \in Cells |-> Px(rc)])

(***************************************************************************)
(* cv2.fastNlMeansDenoising(image, h=10): non-local means with 7x7         *)
(* templates; each sample of the search window, clipped to the grid, is    *)
(* weighted by exp(-d / h^2), d the mean squared difference of the two     *)
(* templates; weights below 0.001 count as 0.                              *)
(* NlmWeights[k + 1] is 1024 * exp(-k / 10), rounded.                      *)
(***************************************************************************)
NlmWeights ==
    << 1024, 927, 838, 759, 686, 621, 562, 509, 460, 416, 377, 341, 308, 279, 253, 228,
       207, 187, 169, 153, 139, 125, 113, 103, 93, 84, 76, 69, 62, 56, 51, 46,
       42, 38, 34, 31, 28, 25, 23, 21, 19, 17, 15, 14, 13, 11, 10, 9,
       8, 8, 7, 6, 6, 5, 5, 4, 4, 3, 3, 3, 3, 2, 2, 2,
       2, 2, 1, 1, 1 >>

Squares == [d \in -255 .. 255 |-> d * d]

FastNlMeansDenoising(image) ==
    LET \* the image with its border of three reflected samples
        Padded == CHOOSE f \in {[rc \in (-3 .. GridH + 2) \X (-3 .. GridW + 2) |->
                                   image.px[<<Reflect101(rc[1], GridH), Reflect101(rc[2], GridW)>>]]} :
                      f = f
        Px(padded, p) ==
            LET \* the sum of squared differences of the templates around p and q
                Dist(q) ==
                    LET D(k) == padded[<<p[1] + (k \div 7) - 3, p[2] + (k % 7) - 3>>]
                                - padded[<<q[1] + (k \div 7) - 3, q[2] + (k % 7) - 3>>]
                        S[k \in -1 .. 48] == IF k < 0 THEN 0 ELSE S[k - 1] + Squares[D(k)]
                    IN  S[48]
                W(q) == LET k == (Dist(q) * 10) \div 4900
                        IN  IF k + 1 > Len(NlmWeights) THEN 0 ELSE NlmWeights[k + 1]
                weights == CHOOSE w \in {[q \in Cells |-> W(q)]} : w = w
            IN  CHOOSE v \in {RoundDiv(SumCells([q \in Cells |-> w[q] * image.px[q]]), SumCells(w)) :
                                  w \in {weights}} : TRUE
    IN  NdArray(image.shape,
                CHOOSE px \in {[rc \in Cells |-> Px(padded, rc)] : padded \in {Padded}} : TRUE)

(***************************************************************************)
(* cv2.createCLAHE(clipLimit, tileGridSize=(8, 8)).apply(image), for an    *)
(* image that lies within one tile: the tile's histogram is clipped at     *)
(* max(1, int(clipLimit * area / 256)), the clipped count is spread over   *)
(* the bins, and each sample is mapped through the cumulative histogram    *)
(* scaled by 255 / area.  clip10 is the clip limit times ten.              *)
(***************************************************************************)
ClaheApply(image, clip10) ==
    LET clip    == Max2((clip10 * Size) \div 2560, 1)
        present == {image.px[rc] : rc \in Cells}
        Count(u) == Cardinality({rc \in Cells : image.px[rc] = u})
        Over(u) == IF Count(u) > clip THEN Count(u) - clip ELSE 0
        clipped == SumCells([rc \in Cells |->
                       IF rc = (CHOOSE x \in Cells : image.px[x] = image.px[rc])
                       THEN Over(image.px[rc]) ELSE 0])
        batch    == clipped \div 256
        residual == clipped - batch * 256
        step     == IF residual = 0 THEN 1 ELSE Max2(256 \div residual, 1)
        Kept(v)  == SumCells([rc \in Cells |->
                       IF rc = (CHOOSE x \in Cells : image.px[x] = image.px[rc])
                          /\ image.px[rc] <= v
                       THEN Min2(Count(image.px[rc]), clip) ELSE 0])
        Cdf(v)   == Kept(v) + batch * (v + 1)
                    + (IF residual = 0 THEN 0 ELSE Min2(residual, (v \div step) + 1))
        Lut(v)   == Saturate(RoundDiv(Cdf(v) * 255, Size))
    IN  NdArray(image.shape, [rc \in Cells |-> Lut(image.px[rc])])

(***************************************************************************)
(* cv2.convertScaleAbs(image, alpha=1.3, beta=30)                          *)
(***************************************************************************)
ConvertScaleAbs(image) ==
    NdArray(image.shape, [rc \in Cells |-> Saturate(Abs(RoundDiv(13 * image.px[rc] + 300, 10)))])

(***************************************************************************)
(* cv2.filter2D(image, -1, kernel) for the two kernels of sharpen_image,   *)
(* BORDER_REFLECT_101, the result rounded and saturated to 8 bits.         *)
(***************************************************************************)
\* [[-1,-1,-1],[-1,9,-1],[-1,-1,-1]]
KernelNormal(i, j) == IF i = 0 /\ j = 0 THEN 9 ELSE -1

\* [[-1,-1,-1,-1,-1],[-1,2,2,2,-1],[-1,2,8,2,-1],[-1,2,2,2,-1],[-1,-1,-1,-1,-1]], before / 8
KernelStrong(i, j) ==
    IF i = 0 /\ j = 0 THEN 8
    ELSE IF Abs(i) <= 1 /\ Abs(j) <= 1 THEN 2 ELSE -1

Filter2D(image, K(_, _), radius, divisor) ==
    LET Px(rc) ==
            LET Line(i) ==
                    LET L(j) == K(i, j) * image.px[<<Reflect101(rc[1] + i, GridH),
                                                     Reflect101(rc[2] + j, GridW)>>]
                    IN  SumRange(-radius, radius, L)
            IN  Saturate(RoundDiv(SumRange(-radius, radius, Line), divisor))
    IN  NdArray(image.shape, [rc \in Cells |-> Px(rc)])

(***************************************************************************)
(* A failed cv2 call: cv2.error, naming the function that raised.          *)
(***************************************************************************)
CvError(func) == [kind |-> "cv2.error", func |-> func]

(***************************************************************************)
(* cv2.adaptiveThreshold(image, 255, ADAPTIVE_THRESH_GAUSSIAN_C,           *)
(* THRESH_BINARY, block_size, C): the Gaussian-weighted mean of the        *)
(* block_size x block_size neighbourhood (BORDER_REPLICATE), rounded to 8  *)
(* bits; a sample becomes 255 when sample - mean > -C and 0 otherwise.     *)
(* cv2 asserts block_size % 2 == 1 and block_size > 1.                     *)
(* GaussianKernels[(b + 1) / 2] is cv2.getGaussianKernel(b, 0) scaled by   *)
(* 2048, for odd b up to 31.                                               *)
(***************************************************************************)
GaussianKernels ==
    << <<2048>>,
       <<512, 1024, 512>>,
       <<128, 512, 768, 512, 128>>,
       <<64, 224, 448, 576, 448, 224, 64>>,
       <<30, 102, 242, 407, 486, 407, 242, 102, 30>>,
       <<18, 56, 133, 249, 362, 412, 362, 249, 133, 56, 18>>,
       <<12, 34, 79, 152, 244, 325, 356, 325, 244, 152, 79, 34, 12>>,
       <<8, 22, 50, 97, 162, 235, 293, 314, 293, 235, 162, 97, 50, 22, 8>>,
       <<6, 15, 33, 64, 109, 166, 223, 266, 284, 266, 223, 166, 109, 64, 33, 15, 6>>,
       <<5, 11, 23, 44, 76, 117, 165, 211, 244, 256, 244, 211, 165, 117, 76, 44, 23, 11, 5>>,
       <<4, 9, 17, 32, 54, 84, 122, 162, 199, 225, 232, 225, 199, 162, 122, 84, 54, 32, 17, 9, 4>>,
       <<3, 7, 13, 24, 40, 62, 91, 124, 158, 188, 208, 212, 208, 188, 158, 124, 91, 62, 40, 24, 13, 7, 3>>,
       <<3, 5, 10, 18, 30, 47, 68, 95, 124, 153, 177, 194, 200, 194, 177, 153, 124, 95, 68, 47, 30, 18, 10, 5, 3>>,
       <<2, 5, 8, 14, 23, 36, 52, 73, 98, 123, 147, 168, 181, 188, 181, 168, 147, 123, 98, 73, 52, 36, 23, 14, 8, 5, 2>>,
       <<2, 4, 7, 11, 18, 28, 41, 57, 77, 99, 121, 142, 159, 170, 176, 170, 159, 142, 121, 99, 77, 57, 41, 28, 18, 11, 7, 4, 2>>,
       <<2, 3, 6, 9, 15, 22, 32, 46, 61, 80, 99, 119, 137, 151, 160, 164, 160, 151, 137, 119, 99, 80, 61, 46, 32, 22, 15, 9, 6, 3, 2>> >>

\* the weight of source index x for the target index c on an axis of n samples
AxisWeight(kernel, c, x, n) ==
    LET r == Len(kernel) \div 2
        K(i) == IF Replicate(c + i, n) = x THEN kernel[i + r + 1] ELSE 0
    IN  SumRange(-r, r, K)

GaussianMean(image, block_size) ==
    LET kernel == GaussianKernels[(block_size + 1) \div 2]
        WR == [c \in Rows |-> [x \in Rows |-> AxisWeight(kernel, c, x, GridH)]]
        WC == [c \in Cols |-> [x \in Cols |-> AxisWeight(kernel, c, x, GridW)]]
        Px(rc) ==
            LET Line(y) == LET L(x) == WC[rc[2]][x] * image.px[<<y, x>>]
                           IN  WR[rc[1]][y] * SumRange(0, GridW - 1, L)
            IN  RoundDiv(SumRange(0, GridH - 1, Line), 4194304)
    IN  [rc \in Cells |-> Px(rc)]

\* a variant of AdaptiveThresholdGaussian that compares with the mean itself
AdaptiveThresholdWithoutC(image, block_size, C) ==
    IF block_size % 2 # 1 \/ block_size <= 1
    THEN CvError("adaptiveThreshold")
    ELSE LET mean == GaussianMean(image, block_size)
         IN  NdArray(image.shape,
                     [rc \in Cells |-> IF image.px[rc] - mean[rc] > 0 THEN 255 ELSE 0])

\* a variant of AdaptiveThresholdGaussian with cv2.THRESH_TOZERO: a sample above the
\* threshold keeps its value
AdaptiveThresholdToZero(image, block_size, C) ==
    IF block_size % 2 # 1 \/ block_size <= 1
    THEN CvError("adaptiveThreshold")
    ELSE LET mean == GaussianMean(image, block_size)
         IN  NdArray(image.shape,
                     [rc \in Cells |-> IF image.px[rc] - mean[rc] > -C THEN image.px[rc] ELSE 0])

AdaptiveThresholdGaussian(image, block_size, C) ==
    IF block_size % 2 # 1 \/ block_size <= 1
    THEN CvError("adaptiveThreshold")
    ELSE LET mean == GaussianMean(image, block_size)
         IN  NdArray(image.shape,
                     [rc \in Cells |-> IF image.px[rc] - mean[rc] > -C THEN 255 ELSE 0])

(***************************************************************************)
(* cv2.morphologyEx with np.ones((2, 2)): the anchor of an even kernel is  *)
(* (1, 1), so a sample's neighbourhood is itself and its upper and left    *)
(* neighbours; samples outside the image do not count.                     *)
(***************************************************************************)
Footprint(rc) ==
    {q \in Cells : q[1] \in {rc[1] - 1, rc[1]} /\ q[2] \in {rc[2] - 1, rc[2]}}

SetMin(S) == CHOOSE x \in S : \A y \in S : x <= y
SetMax(S) == CHOOSE x \in S : \A y \in S : x >= y

Erode(image) ==
    NdArray(image.shape, [rc \in Cells |-> SetMin({image.px[q] : q \in Footprint(rc)})])

Dilate(image) ==
    NdArray(image.shape, [rc \in Cells |-> SetMax({image.px[q] : q \in Footprint(rc)})])

\* cv2.MORPH_OPEN
MorphOpen(image) == CHOOSE opened \in {Dilate(eroded) : eroded \in {Erode(image)}} : TRUE

\* cv2.MORPH_CLOSE
MorphClose(image) == CHOOSE closed \in {Erode(dilated) : dilated \in {Dilate(image)}} : TRUE

(***************************************************************************)
(* Angles.  An angle is carried as its value in thousandths of a degree    *)
(* and its cosine and sine scaled by 1024 (the 10 fractional bits of       *)
(* cv2.warpAffine's coordinates).                                          *)
(***************************************************************************)
\* round(1024 * x / sqrt(n)) for 0 <= x, x * x <= n
Ratio1024(x, n) ==
    CHOOSE c \in 0 .. 1024 :
        /\ c = 0 \/ (2 * c - 1) * (2 * c - 1) * n <= 4194304 * x * x
        /\ 4194304 * x * x < (2 * c + 1) * (2 * c + 1) * n

\* atan(b / a) in thousandths of a degree, for the directions of a grid of at most 5 x 5
AtanMdeg(a, b) ==
    CASE b = 0 -> 0
      [] a = b -> 45000
      [] a = 2 /\ b = 1 -> 26565
      [] a = 1 /\ b = 2 -> 63435
      [] a = 3 /\ b = 1 -> 18435
      [] a = 1 /\ b = 3 -> 71565
      [] a = 3 /\ b = 2 -> 33690
      [] a = 2 /\ b = 3 -> 56310
      [] a = 4 /\ b = 1 -> 14036
      [] a = 1 /\ b = 4 -> 75964
      [] a = 4 /\ b = 3 -> 36870
      [] a = 3 /\ b = 4 -> 53130

\* the angle of the direction (a, b), in [0, 90)
DirAngle(d) ==
    LET n == d[1] * d[1] + d[2] * d[2]
    IN  [mdeg |-> AtanMdeg(d[1], d[2]), cos |-> Ratio1024(d[1], n), sin |-> Ratio1024(d[2], n)]

\* -angle
AngleNeg(x) == [mdeg |-> -x.mdeg, cos |-> x.cos, sin |-> -x.sin]

\* angle + 90
AnglePlus90(x) == [mdeg |-> x.mdeg + 90000, cos |-> -x.sin, sin |-> x.cos]

\* angle - 90
AngleMinus90(x) == [mdeg |-> x.mdeg - 90000, cos |-> x.sin, sin |-> -x.cos]

(***************************************************************************)
(* cv2.minAreaRect(coords)[-1]: the angle of the rectangle of least area   *)
(* around the points.  One side of that rectangle lies along an edge of    *)
(* the convex hull, so its direction is one of the lattice directions.     *)
(* The angle names the rectangle's direction modulo 90 degrees: cv2 from   *)
(* 4.5.1 on reports it in (0, 90], older builds in [-90, 0).               *)
(***************************************************************************)
\* one direction for every lattice direction modulo 90 degrees
Directions ==
    {d \in (1 .. Max2(GridH, GridW) - 1) \X (0 .. Max2(GridH, GridW) - 1) : Gcd(d[1], d[2]) = 1}

\* the extent of the points along the direction d
Extent(points, d) ==
    LET proj == {p[1] * d[1] + p[2] * d[2] : p \in points}
    IN  SetMax(proj) - SetMin(proj)

\* the area of the bounding rectangle with a side along d, times |d|^2
BoxArea(points, d) == Extent(points, d) * Extent(points, <<-d[2], d[1]>>)

\* the direction of the rectangle of least area (the smallest angle among equals)
MinAreaDirection(points) ==
    LET Less(d, e) == BoxArea(points, d) * (e[1] * e[1] + e[2] * e[2])
                      < BoxArea(points, e) * (d[1] * d[1] + d[2] * d[2])
        best == {d \in Directions : \A e \in Directions : ~Less(e, d)}
    IN  CHOOSE d \in best : \A e \in best : AtanMdeg(d[1], d[2]) <= AtanMdeg(e[1], e[2])

\* the angles cv2.minAreaRect(coords)[-1] can report, by the build of cv2
MinAreaRectAngles(points) ==
    LET t == DirAngle(MinAreaDirection(points))
    IN  { IF t.mdeg = 0 THEN AnglePlus90(t) ELSE t,     \* cv2 >= 4.5.1: (0, 90]
          AngleMinus90(t) }                             \* older: [-90, 0)

(***************************************************************************)
(* cv2.getRotationMatrix2D(center, angle, 1.0) and cv2.warpAffine(image,   *)
(* M, (w, h), flags=INTER_CUBIC, borderMode=BORDER_REPLICATE): the         *)
(* destination sample (x, y) reads the source at the position M^-1 maps    *)
(* it to, in steps of 1/32, by bicubic interpolation.  The destination has *)
(* the size (w, h) asked for.                                              *)
(***************************************************************************)
\* the four tap weights at the offset k/32, scaled by 1024 and adding up to 1024
WarpCoef(k) ==
    LET num == CubicNum(k, 32)
        c0  == RoundDiv(num[1], 128)
        c2  == RoundDiv(num[3], 128)
        c3  == RoundDiv(num[4], 128)
    IN  <<c0, 1024 - c0 - c2 - c3, c2, c3>>

WarpAffineCubic(image, center, angle, dsize) ==
    LET Px(rc) ==
            LET dx == rc[2] - center[1]
                dy == rc[1] - center[2]
                X  == FloorDiv(angle.cos * dx - angle.sin * dy + 1024 * center[1] + 16, 32)
                Y  == FloorDiv(angle.sin * dx + angle.cos * dy + 1024 * center[2] + 16, 32)
                sx == FloorDiv(X, 32)
                sy == FloorDiv(Y, 32)
                cx == WarpCoef(X - 32 * sx)
                cy == WarpCoef(Y - 32 * sy)
                Line(i) == LET L(j) == cx[j] * image.px[<<Replicate(sy - 2 + i, GridH),
                                                          Replicate(sx - 2 + j, GridW)>>]
                           IN  cy[i] * SumRange(1, 4, L)
            IN  Saturate(RoundDiv(SumRange(1, 4, Line), 1048576))
    IN  NdArray(<<dsize[2], dsize[1]>>, [rc \in Cells |-> Px(rc)])

(***************************************************************************)
(* The image files: a path names a pattern of text cells drawn with a      *)
(* palette (background, text) on a canvas of some extent, as               *)
(* src/create_test_images.py draws them, or no readable image at all.      *)
(***************************************************************************)
Patterns == {"blank", "stroke", "dot", "half", "block", "skew"}

IsText(pattern, rc) ==
    CASE pattern = "blank"   -> FALSE
      [] pattern = "stroke"  -> rc[2] = 1
      [] pattern = "dot"     -> rc = <<1, 1>>
      [] pattern = "half"    -> rc[2] < GridW \div 2
      [] pattern = "block"   -> rc[1] < 2 /\ rc[2] < 2
      [] pattern = "skew"    -> rc \in {<<0, 1>>, <<1, 1>>, <<1, 2>>, <<2, 1>>, <<2, 2>>, <<2, 3>>}

\* <<background, text>> as BGR triples
Palettes ==
    << <<(<<255, 255, 255>>), (<<0, 0, 0>>)>>,          \* create_clean_image
       <<(<<50, 50, 50>>), (<<120, 120, 120>>)>>,       \* create_dark_image
       <<(<<0, 0, 0>>), (<<255, 255, 255>>)>>,          \* create_inverted_image
       <<(<<200, 200, 200>>), (<<100, 100, 100>>)>>,    \* create_low_contrast_image
       <<(<<200, 200, 200>>), (<<190, 190, 190>>)>>,    \* faint text
       <<(<<255, 255, 255>>), (<<200, 30, 30>>)>>,      \* blue text
       <<(<<200, 200, 200>>), (<<194, 194, 194>>)>>,    \* fainter text
       <<(<<127, 127, 127>>), (<<119, 119, 119>>)>> >>  \* a mid-gray page

\* <<height, width>>
FileShapes == {<<400, 800>>, <<750, 1000>>, <<1200, 1600>>}

MissingPath == [pattern |-> "missing", palette |-> 0, shape |-> <<0, 0>>]

\* every pattern in every palette on the narrow canvas, and in the first palette on
\* the wider ones too
ImagePaths ==
    {[pattern |-> pt, palette |-> k, shape |-> <<400, 800>>] :
        pt \in Patterns, k \in 1 .. Len(Palettes)}
    \cup {[pattern |-> pt, palette |-> 1, shape |-> sh] : pt \in Patterns, sh \in FileShapes}

Paths == ImagePaths \cup {MissingPath}

\* cv2.imread(image_path): a BGR array, or None when the file cannot be read
Imread(image_path) ==
    IF image_path = MissingPath THEN None
    ELSE NdArray(<<image_path.shape[1], image_path.shape[2], 3>>,
                 [rc \in Cells |-> Palettes[image_path.palette]
                                       [IF IsText(image_path.pattern, rc) THEN 2 ELSE 1]])

(***************************************************************************)
(* cv2.GaussianBlur(image, (5, 5), 0): the kernel [1 4 6 4 1] / 16 along   *)
(* both axes, BORDER_REFLECT_101.                                          *)
(***************************************************************************)
GaussianBlur5(image) ==
    LET k == <<1, 4, 6, 4, 1>>
        Px(rc) ==
            LET Line(i) == LET L(j) == k[j + 3] * image.px[<<Reflect101(rc[1] + i, GridH),
                                                             Reflect101(rc[2] + j, GridW)>>]
                           IN  k[i + 3] * SumRange(-2, 2, L)
            IN  RoundDiv(SumRange(-2, 2, Line), 256)
    IN  NdArray(image.shape, [rc \in Cells |-> Px(rc)])

(***************************************************************************)
(* The methods of ImageProcessor, as functions of their arguments.         *)
(***************************************************************************)
convert_to_grayscale(image) ==
    IF Len(image.shape) = 3 THEN CvtColorBGR2GRAY(image) ELSE image

reduce_noise(image, method) ==
    CASE method = "bilateral" -> BilateralFilter(image)
      [] method = "gaussian"  -> GaussianBlur5(image)
      [] method = "median"    -> MedianBlur5(image)
      [] OTHER                -> image

\* a variant of apply_adaptive_threshold that passes block_size on as it is
apply_adaptive_threshold_as_given(image, block_size, C) ==
    AdaptiveThresholdGaussian(image, block_size, C)

apply_adaptive_threshold(image, block_size, C) ==
    AdaptiveThresholdGaussian(image,
                              IF block_size % 2 = 0 THEN block_size + 1 ELSE block_size,
                              C)

\* a variant of detect_inverted_text that takes the threshold of the brightness check
detect_inverted_text_below_90(image) == IF IsEmpty(image) THEN FALSE ELSE MeanBelow(image, 90)

\* a variant of detect_inverted_text that counts a mean of exactly 127 as inverted
detect_inverted_text_at_127(image) == IF IsEmpty(image) THEN FALSE ELSE MeanBelow(image, 128)

\* np.mean of an array without samples is nan (numpy warns and returns it),
\* and nan < 127 is False
detect_inverted_text(image) == IF IsEmpty(image) THEN FALSE ELSE MeanBelow(image, 127)

invert_image(image) == BitwiseNot(image)

enhance_contrast(image, strength) ==
    IF strength = "strong"
    THEN CHOOSE out \in {IF MeanBelow(enhanced, 100) THEN ConvertScaleAbs(enhanced) ELSE enhanced :
                              enhanced \in {ClaheApply(image, 35)}} : TRUE
    ELSE ClaheApply(image, 20)

\* coords = np.column_stack(np.where(image > 0))
DeskewCoords(image) == {rc \in Cells : image.px[rc] > 0}

\* the angle after "Normalize the angle"
NormalizeAngle(angle) ==
    IF angle.mdeg < -45000 THEN AngleNeg(AnglePlus90(angle)) ELSE AngleNeg(angle)

\* (w // 2, h // 2) at the model's resolution
RotationCentre == <<GridW \div 2, GridH \div 2>>

\* a variant of DeskewByAngle that also leaves an image at 0.5 degrees alone
DeskewByAngleAboveHalf(image, raw) ==
    LET angle == NormalizeAngle(raw)
    IN  IF Abs(angle.mdeg) <= 500
        THEN image
        ELSE WarpAffineCubic(image, RotationCentre, angle, <<image.shape[2], image.shape[1]>>)

\* deskew_image from the angle cv2.minAreaRect gave
DeskewByAngle(image, raw) ==
    LET angle == NormalizeAngle(raw)
    IN  IF Abs(angle.mdeg) < 500
        THEN image
        ELSE WarpAffineCubic(image, RotationCentre, angle, <<image.shape[2], image.shape[1]>>)

\* a variant of deskew_image that estimates the angle from any number of points
deskew_image_of_any_points(image) ==
    IF Cardinality(DeskewCoords(image)) < 1
    THEN {image}
    ELSE {DeskewByAngle(image, raw) : raw \in MinAreaRectAngles(DeskewCoords(image))}

\* the images deskew_image can return (one per build of cv2)
deskew_image(image) ==
    IF Cardinality(DeskewCoords(image)) < 5
    THEN {image}
    ELSE {DeskewByAngle(image, raw) : raw \in MinAreaRectAngles(DeskewCoords(image))}

\* scale_factor = target_dpi / estimated_dpi is a double, and so is its product with
\* a dimension.  Where the exact product is a whole number the double product can
\* fall just below it, and int() then gives one less.  Of the dimensions and
\* resolutions the model calls upscale_image with, it does at these
\* (<<target_dpi, dimension>>; 120 * (147 / 72) is 244.99999999999997).
DoubleShortfall == {<<147, 120>>, <<147, 240>>}

\* int(dimension * scale_factor)
ScaledDimension(dimension, target_dpi) ==
    (dimension * target_dpi) \div 72
        - (IF <<target_dpi, dimension>> \in DoubleShortfall THEN 1 ELSE 0)

\* a variant of upscale_image that also upscales an image exactly 1000 wide
upscale_image_up_to_1000(image, target_dpi) ==
    LET height == image.shape[1]
        width  == image.shape[2]
    IN  IF width <= 1000 /\ target_dpi > 72
        THEN ResizeCubic(image, ScaledDimension(width, target_dpi),
                         ScaledDimension(height, target_dpi))
        ELSE image

\* a variant of upscale_image that resizes whatever scale_factor is
upscale_image_any_factor(image, target_dpi) ==
    LET height == image.shape[1]
        width  == image.shape[2]
    IN  IF width < 1000
        THEN ResizeCubic(image, ScaledDimension(width, target_dpi),
                         ScaledDimension(height, target_dpi))
        ELSE image

\* a variant of upscale_image that leaves an image 500 wide or wider alone
upscale_image_below_500(image, target_dpi) ==
    LET height == image.shape[1]
        width  == image.shape[2]
    IN  IF width < 500 /\ target_dpi > 72
        THEN ResizeCubic(image, ScaledDimension(width, target_dpi),
                         ScaledDimension(height, target_dpi))
        ELSE image

upscale_image(image, target_dpi) ==
    LET height == image.shape[1]
        width  == image.shape[2]
    IN  IF width < 1000 /\ target_dpi > 72
        THEN ResizeCubic(image, ScaledDimension(width, target_dpi),
                         ScaledDimension(height, target_dpi))
        ELSE image

sharpen_image(image, strength) ==
    IF strength = "strong"
    THEN Filter2D(image, KernelStrong, 2, 8)
    ELSE Filter2D(image, KernelNormal, 1, 1)

\* ndarray.var() of the responses; nan when there are none
detect_blur(image) == IF IsEmpty(image) THEN NaN ELSE Var(Laplacian(image))

remove_small_noise(binary_image) ==
    CHOOSE closing \in {MorphClose(opening) : opening \in {MorphOpen(binary_image)}} : TRUE

\* a variant of estimate_noise that takes the variance itself, not a tenth of it
estimate_noise_undivided(image) ==
    LET variance == IF IsEmpty(image) THEN NaN ELSE Var(Laplacian(image))
    IN  IF Lt(variance, 100) THEN variance ELSE [num |-> 100, den |-> 1]

\* min(100, variance / 10), as a fraction: Python's min returns its second
\* argument only when that is less than the first, so min(100, nan) is 100
estimate_noise(image) ==
    LET variance == IF IsEmpty(image) THEN NaN ELSE Var(Laplacian(image))
    IN  IF Lt(variance, 1000)
        THEN [num |-> variance.num, den |-> 10 * variance.den]
        ELSE [num |-> 100, den |-> 1]

(***************************************************************************)
(* process_image(image_path, apply_deskew): the frame of an invocation.    *)
(* pc names the statement the invocation executes next; trace lists the    *)
(* stages it has entered, in the order it entered them.                    *)
(***************************************************************************)
\* the values the callers pass for apply_deskew: the GUI's checkbox (True / False),
\* the default ('auto'), and the output path src/demo.py passes in its place
DeskewArgs == {"True", "False", "'auto'", "'debug_processed.jpg'"}

\* a variant of EqualsTrue: Python's truth value of apply_deskew
IsTruthy(apply_deskew) == apply_deskew # "False"

\* Python's apply_deskew == True
EqualsTrue(apply_deskew) == apply_deskew = "True"

NoFraction == [num |-> 0, den |-> 1]

NoException == [kind |-> "None"]

NewFrame(image_path, apply_deskew) ==
    [ pc           |-> "load_imread",
      image_path   |-> image_path,
      apply_deskew |-> apply_deskew,
      image        |-> None,
      gray         |-> None,
      is_inverted  |-> FALSE,
      is_dark      |-> FALSE,
      upscaled     |-> None,
      blur_score   |-> NoFraction,
      is_blurry    |-> FALSE,
      noise_level  |-> NoFraction,
      is_noisy     |-> FALSE,
      filters      |-> << >>,
      denoised     |-> None,
      contrast     |-> "",
      enhanced     |-> None,
      sharpen      |-> "",
      sharpened    |-> None,
      block_size   |-> 0,
      binary       |-> None,
      cleaned      |-> None,
      result       |-> None,        \* the value returned to the caller
      exception    |-> NoException, \* the exception that left process_image
      trace        |-> << >> ]

Invocations == DOMAIN frame

\* the frame of t after entering a stage
Enter(t, stage) == [frame[t] EXCEPT !.trace = Append(@, stage)]

\* the line of process_image a statement starts at
LineOf ==
    [ load_check |-> 340, grayscale |-> 343, polarity |-> 346, brightness |-> 353,
      upscale    |-> 357, blur      |-> 360, noise    |-> 364, denoise    |-> 368,
      contrast   |-> 382, sharpen   |-> 388, threshold |-> 400, clean     |-> 408,
      deskew     |-> 413 ]

\* a variant of Propagate that surfaces the exception without the line it came from
PropagateWithoutTraceback(f, exception) ==
    [f EXCEPT !.pc = "raised",
              !.exception = [kind      |-> exception.kind,
                             func      |-> exception.func,
                             tb_lineno |-> 0]]

\* an exception raised in a stage of process_image: no handler, it leaves the call
Propagate(f, exception) ==
    [f EXCEPT !.pc = "raised",
              !.exception = [kind      |-> exception.kind,
                             func      |-> exception.func,
                             tb_lineno |-> LineOf[f.pc]]]

\* a variant of LoadError of the kind the cv2 calls of the later stages raise
LoadErrorAsCvError(image_path) == [kind |-> "cv2.error", func |-> "load_image"]

\* raise ValueError(f"Could not load image from {image_path}")
LoadError(image_path) == [kind |-> "ValueError", func |-> "load_image"]

(***************************************************************************)
(* Step 1, load_image: three statements on self.original_image.            *)
(***************************************************************************)
LoadImread(t) ==
    /\ frame[t].pc = "load_imread"
    /\ original_image' = Imread(frame[t].image_path)
    /\ frame' = [frame EXCEPT ![t] = [Enter(t, "load") EXCEPT !.pc = "load_check"]]
    /\ UNCHANGED <<gui, tts, processed_image, grayscale_image, call>>

LoadCheck(t) ==
    /\ frame[t].pc = "load_check"
    /\ frame' = [frame EXCEPT ![t] =
                    IF IsNone(original_image)
                    THEN Propagate(@, LoadError(@.image_path))
                    ELSE [@ EXCEPT !.pc = "load_return"]]
    /\ UNCHANGED <<gui, tts, original_image, processed_image, grayscale_image, call>>

LoadReturn(t) ==
    /\ frame[t].pc = "load_return"
    /\ frame' = [frame EXCEPT ![t] = [@ EXCEPT !.image = original_image, !.pc = "grayscale"]]
    /\ UNCHANGED <<gui, tts, original_image, processed_image, grayscale_image, call>>

(***************************************************************************)
(* Step 2: gray = self.convert_to_grayscale(image)                         *)
(***************************************************************************)
Grayscale(t) ==
    /\ frame[t].pc = "grayscale"
    /\ LET gray == convert_to_grayscale(frame[t].image)
       IN  /\ grayscale_image' = gray
           /\ frame' = [frame EXCEPT ![t] =
                           [Enter(t, "grayscale") EXCEPT !.gray = gray, !.pc = "polarity"]]
    /\ UNCHANGED <<gui, tts, original_image, processed_image, call>>

(***************************************************************************)
(* Steps 3 and 3b: detect inverted text on gray, and invert gray if so.    *)
(***************************************************************************)
Polarity(t) ==
    /\ frame[t].pc = "polarity"
    /\ LET is_inverted == detect_inverted_text(frame[t].gray)
           f == Enter(t, "polarity")
       IN  frame' = [frame EXCEPT ![t] =
                        IF is_inverted
                        THEN [f EXCEPT !.is_inverted = TRUE,
                                       !.gray = invert_image(frame[t].gray),
                                       !.trace = Append(@, "invert"),
                                       !.pc = "brightness"]
                        ELSE [f EXCEPT !.is_inverted = FALSE, !.pc = "brightness"]]
    /\ UNCHANGED <<gui, tts, original_image, processed_image, grayscale_image, call>>

(***************************************************************************)
(* Step 4: is_dark = np.mean(gray) < 90                                    *)
(***************************************************************************)
\* a variant of Brightness that goes on to the blur estimate, leaving out the upscale stage
BrightnessSkippingUpscale(t) ==
    /\ frame[t].pc = "brightness"
    /\ frame' = [frame EXCEPT ![t] =
                    [Enter(t, "brightness") EXCEPT !.is_dark = MeanBelow(frame[t].gray, 90),
                                                   !.upscaled = frame[t].gray,
                                                   !.pc = "blur"]]
    /\ UNCHANGED <<gui, tts, original_image, processed_image, grayscale_image, call>>

Brightness(t) ==
    /\ frame[t].pc = "brightness"
    /\ frame' = [frame EXCEPT ![t] =
                    [Enter(t, "brightness") EXCEPT !.is_dark = MeanBelow(frame[t].gray, 90),
                                                   !.pc = "upscale"]]
    /\ UNCHANGED <<gui, tts, original_image, processed_image, grayscale_image, call>>

(***************************************************************************)
(* Step 5: upscaled = self.upscale_image(gray, target_dpi=300)             *)
(***************************************************************************)
Upscale(t) ==
    /\ frame[t].pc = "upscale"
    /\ frame' = [frame EXCEPT ![t] =
                    [Enter(t, "upscale") EXCEPT !.upscaled = upscale_image(frame[t].gray, 300),
                                                !.pc = "blur"]]
    /\ UNCHANGED <<gui, tts, original_image, processed_image, grayscale_image, call>>

(***************************************************************************)
(* Step 6: blur_score = self.detect_blur(upscaled); is_blurry              *)
(***************************************************************************)
Blur(t) ==
    /\ frame[t].pc = "blur"
    /\ LET blur_score == detect_blur(frame[t].upscaled)
       IN  frame' = [frame EXCEPT ![t] =
                        [Enter(t, "blur") EXCEPT !.blur_score = blur_score,
                                                 !.is_blurry = Lt(blur_score, 100),
                                                 !.pc = "noise"]]
    /\ UNCHANGED <<gui, tts, original_image, processed_image, grayscale_image, call>>

(***************************************************************************)
(* Step 7: noise_level = self._estimate_noise(upscaled); is_noisy          *)
(***************************************************************************)
Noise(t) ==
    /\ frame[t].pc = "noise"
    /\ LET noise_level == estimate_noise(frame[t].upscaled)
       IN  frame' = [frame EXCEPT ![t] =
                        [Enter(t, "noise") EXCEPT !.noise_level = noise_level,
                                                  !.is_noisy = Gt(noise_level, 15),
                                                  !.pc = "denoise"]]
    /\ UNCHANGED <<gui, tts, original_image, processed_image, grayscale_image, call>>

(***************************************************************************)
(* Step 8: adaptive denoising on noise_level.  filters lists the filters   *)
(* applied, in order.                                                      *)
(***************************************************************************)
\* a variant of DenoiseFilters with the three-filter cascade for every estimate above 15
DenoiseFiltersCascadeAbove15(noise_level) ==
    IF Gt(noise_level, 15)
    THEN <<"fastNlMeansDenoising", "medianBlur", "bilateralFilter">>
    ELSE <<"bilateralFilter">>

\* a variant of DenoiseFilters whose middle tier applies the bilateral filter first
DenoiseFiltersBilateralFirst(noise_level) ==
    IF Gt(noise_level, 25)
    THEN <<"fastNlMeansDenoising", "medianBlur", "bilateralFilter">>
    ELSE IF Gt(noise_level, 15)
         THEN <<"bilateralFilter", "medianBlur">>
         ELSE <<"bilateralFilter">>

DenoiseFilters(noise_level) ==
    IF Gt(noise_level, 25)
    THEN <<"fastNlMeansDenoising", "medianBlur", "bilateralFilter">>
    ELSE IF Gt(noise_level, 15)
         THEN <<"medianBlur", "bilateralFilter">>
         ELSE <<"bilateralFilter">>

ApplyFilter(name, image) ==
    CASE name = "fastNlMeansDenoising" -> FastNlMeansDenoising(image)
      [] name = "medianBlur"           -> MedianBlur5(image)
      [] name = "bilateralFilter"      -> reduce_noise(image, "bilateral")

RECURSIVE ApplyFilters(_, _)
ApplyFilters(names, image) ==
    IF names = << >> THEN image
    ELSE CHOOSE out \in {ApplyFilters(Tail(names), filtered) :
                              filtered \in {ApplyFilter(Head(names), image)}} : TRUE

Denoise(t) ==
    /\ frame[t].pc = "denoise"
    /\ LET filters == DenoiseFilters(frame[t].noise_level)
       IN  frame' = [frame EXCEPT ![t] =
                        [Enter(t, "denoise") EXCEPT
                            !.filters = filters,
                            !.denoised = ApplyFilters(filters, frame[t].upscaled),
                            !.pc = "contrast"]]
    /\ UNCHANGED <<gui, tts, original_image, processed_image, grayscale_image, call>>

(***************************************************************************)
(* Step 9: adaptive contrast enhancement on is_dark                        *)
(***************************************************************************)
ContrastStrength(is_dark) == IF is_dark THEN "strong" ELSE "normal"

Contrast(t) ==
    /\ frame[t].pc = "contrast"
    /\ LET strength == ContrastStrength(frame[t].is_dark)
       IN  frame' = [frame EXCEPT ![t] =
                        [Enter(t, "contrast") EXCEPT
                            !.contrast = strength,
                            !.enhanced = enhance_contrast(frame[t].denoised, strength),
                            !.pc = "sharpen"]]
    /\ UNCHANGED <<gui, tts, original_image, processed_image, grayscale_image, call>>

(***************************************************************************)
(* Step 10: adaptive sharpening on is_blurry and is_noisy                  *)
(***************************************************************************)
\* a variant of SharpenStrength that sharpens a noisy image too
SharpenStrengthIgnoringNoise(is_blurry, is_noisy) ==
    IF is_blurry THEN "strong" ELSE "normal"

SharpenStrength(is_blurry, is_noisy) ==
    IF is_blurry /\ ~is_noisy THEN "strong"
    ELSE IF ~is_noisy THEN "normal"
    ELSE "skip"

Sharpen(t) ==
    /\ frame[t].pc = "sharpen"
    /\ LET strength == SharpenStrength(frame[t].is_blurry, frame[t].is_noisy)
       IN  frame' = [frame EXCEPT ![t] =
                        [Enter(t, "sharpen") EXCEPT
                            !.sharpen = strength,
                            !.sharpened = IF strength = "skip"
                                          THEN frame[t].enhanced
                                          ELSE sharpen_image(frame[t].enhanced, strength),
                            !.pc = "threshold"]]
    /\ UNCHANGED <<gui, tts, original_image, processed_image, grayscale_image, call>>

(***************************************************************************)
(* Step 11: adaptive thresholding with dynamic block size                  *)
(***************************************************************************)
\* a variant of BlockSize that leaves an even block size even
BlockSizeUnrounded(width) == Max2(11, Min2(31, width \div 50))

BlockSize(width) ==
    LET block_size == Max2(11, Min2(31, width \div 50))
    IN  IF block_size % 2 = 0 THEN block_size + 1 ELSE block_size

Threshold(t) ==
    /\ frame[t].pc = "threshold"
    /\ LET block_size == BlockSize(frame[t].sharpened.shape[2])
           binary == apply_adaptive_threshold(frame[t].sharpened, block_size, 2)
           f == [Enter(t, "threshold") EXCEPT !.block_size = block_size]
       IN  frame' = [frame EXCEPT ![t] =
                        IF binary.kind = "cv2.error"
                        THEN Propagate(f, binary)
                        ELSE [f EXCEPT !.binary = binary, !.pc = "clean"]]
    /\ UNCHANGED <<gui, tts, original_image, processed_image, grayscale_image, call>>

(***************************************************************************)
(* Step 12: cleaned = self.remove_small_noise(binary)                      *)
(***************************************************************************)
Clean(t) ==
    /\ frame[t].pc = "clean"
    /\ frame' = [frame EXCEPT ![t] =
                    [Enter(t, "clean") EXCEPT
                        !.cleaned = remove_small_noise(frame[t].binary),
                        !.pc = "deskew"]]
    /\ UNCHANGED <<gui, tts, original_image, processed_image, grayscale_image, call>>

(***************************************************************************)
(* Step 13: optional deskewing, on apply_deskew == True                    *)
(***************************************************************************)
Deskew(t) ==
    /\ frame[t].pc = "deskew"
    /\ IF EqualsTrue(frame[t].apply_deskew)
       THEN \E deskewed \in deskew_image(frame[t].cleaned) :
                frame' = [frame EXCEPT ![t] =
                             [Enter(t, "deskew") EXCEPT !.cleaned = deskewed, !.pc = "store"]]
       ELSE frame' = [frame EXCEPT ![t] = [@ EXCEPT !.pc = "store"]]
    /\ UNCHANGED <<gui, tts, original_image, processed_image, grayscale_image, call>>

(***************************************************************************)
(* self.processed_image = cleaned; return cleaned                          *)
(***************************************************************************)
StoreAndReturn(t) ==
    /\ frame[t].pc = "store"
    /\ processed_image' = frame[t].cleaned
    /\ frame' = [frame EXCEPT ![t] = [@ EXCEPT !.result = frame[t].cleaned, !.pc = "returned"]]
    /\ UNCHANGED <<gui, tts, original_image, grayscale_image, call>>

(***************************************************************************)
(* A library call of a stage fails (cv2.error or MemoryError, e.g. when    *)
(* an allocation fails).  Neither process_image nor any stage method has   *)
(* a try block, so the exception leaves process_image with the traceback   *)
(* Python gave it: tb_lineno is the line of process_image it passed.       *)
(***************************************************************************)
\* the library calls the statement at f.pc makes
StageCalls(f) ==
    CASE f.pc = "grayscale"  -> {"cvtColor"}
      [] f.pc = "polarity"   -> {"mean"}
      [] f.pc = "brightness" -> {"mean"}
      [] f.pc = "upscale"    -> IF f.gray.shape[2] < 1000 THEN {"resize"} ELSE {}
      [] f.pc = "blur"       -> {"Laplacian"}
      [] f.pc = "noise"      -> {"Laplacian", "var"}
      [] f.pc = "denoise"    -> LET filters == DenoiseFilters(f.noise_level)
                                IN  {filters[i] : i \in 1 .. Len(filters)}
      [] f.pc = "contrast"   -> {"createCLAHE"}
                                    \cup (IF f.is_dark THEN {"mean", "convertScaleAbs"} ELSE {})
      [] f.pc = "sharpen"    -> IF f.is_noisy THEN {} ELSE {"filter2D"}
      [] f.pc = "threshold"  -> {"adaptiveThreshold"}
      [] f.pc = "clean"      -> {"morphologyEx"}
      [] f.pc = "deskew"     -> IF EqualsTrue(f.apply_deskew)
                                THEN {"minAreaRect", "warpAffine"} ELSE {}
      [] OTHER               -> {}

ErrorKind(func) == IF func \in {"mean", "var"} THEN "MemoryError" ELSE "cv2.error"

StageRaises(t) ==
    /\ \E func \in StageCalls(frame[t]) :
          frame' = [frame EXCEPT ![t] =
                       Propagate(Enter(t, frame[t].pc),
                                 [kind |-> ErrorKind(func), func |-> func])]
    /\ UNCHANGED <<gui, tts, original_image, processed_image, grayscale_image, call>>

(***************************************************************************)
(* One invocation of process_image on a fresh ImageProcessor.              *)
(***************************************************************************)
NoCall == [method |-> "None"]

\* no VisionSpeakApp has been constructed
NoGui == [kind |-> "None"]

\* no TTSEngine has been constructed
NoTts == [kind |-> "None"]

Init ==
    /\ gui = NoGui
    /\ tts = NoTts
    /\ original_image = None
    /\ processed_image = None
    /\ grayscale_image = None
    /\ call = NoCall
    /\ \E image_path \in Paths, apply_deskew \in DeskewArgs :
          frame = [t \in {1} |-> NewFrame(image_path, apply_deskew)]

\* the statements of process_image
Stage(t) ==
    \/ LoadImread(t)
    \/ LoadCheck(t)
    \/ LoadReturn(t)
    \/ Grayscale(t)
    \/ Polarity(t)
    \/ Brightness(t)
    \/ Upscale(t)
    \/ Blur(t)
    \/ Noise(t)
    \/ Denoise(t)
    \/ Contrast(t)
    \/ Sharpen(t)
    \/ Threshold(t)
    \/ Clean(t)
    \/ Deskew(t)
    \/ StoreAndReturn(t)

Next == \E t \in Invocations : Stage(t) \/ StageRaises(t)

Spec == Init /\ [][Next]_vars

(***************************************************************************)
(* Two worker threads of the GUI (process_task), each in                   *)
(* self.image_processor.process_image(self.current_image_path, ...), on    *)
(* the one ImageProcessor the application holds.  The threads interleave   *)
(* between statements.                                                     *)
(***************************************************************************)
Threads == {1, 2}

\* the images the user has opened when the two tasks start
ThreadPaths ==
    {[pattern |-> "blank", palette |-> 1, shape |-> <<750, 1000>>],
     [pattern |-> "half",  palette |-> 1, shape |-> <<750, 1000>>]}

\* self.deskew_var.get()
DeskewVar == {"True", "False"}

InitThreads ==
    /\ gui = NoGui
    /\ tts = NoTts
    /\ original_image = None
    /\ processed_image = None
    /\ grayscale_image = None
    /\ call = NoCall
    /\ \E image_path \in [Threads -> ThreadPaths], apply_deskew \in DeskewVar :
          /\ image_path[1] # image_path[2]
          /\ frame = [t \in Threads |-> NewFrame(image_path[t], apply_deskew)]

\* the threads' steps; no library call fails
NextThreads == \E t \in Threads : Stage(t)

SpecThreads == InitThreads /\ [][NextThreads]_vars

(***************************************************************************)
(* A single call of a method of ImageProcessor on given arguments.  call   *)
(* holds the method, its arguments and, once it has returned, what came    *)
(* back: the value, or the exception that left the method.                 *)
(***************************************************************************)
\* every two-valued image whose black samples fill whole rows and whole columns
BitonalImages ==
    {NdArray(<<GridH, GridW>>,
             [rc \in Cells |-> IF rc[1] \in rows \/ rc[2] \in cols THEN 0 ELSE 255]) :
        rows \in SUBSET Rows, cols \in SUBSET Cols}

\* <<background, text>> gray levels of the grayscale images passed to a method
GrayLevels == {<<200, 100>>, <<200, 198>>, <<130, 128>>, <<127, 127>>, <<127, 126>>, <<30, 90>>}

GrayImages ==
    {NdArray(<<GridH, GridW>>,
             [rc \in Cells |-> IF IsText(pt, rc) THEN lv[2] ELSE lv[1]]) :
        pt \in Patterns, lv \in GrayLevels}

\* images which between them hold every sample value 0 .. 255
RampImages ==
    {NdArray(<<GridH, GridW>>, [rc \in Cells |-> (16 * (rc[1] * GridW + rc[2]) + k) % 256]) :
        k \in 0 .. 15}

\* images without samples
EmptyImages == {EmptyArray(<<0, 0>>), EmptyArray(<<0, GridW>>), EmptyArray(<<GridH, 0>>)}

\* two-valued images with zero to seven white samples
SparseCells == {<<0, 0>>, <<1, 1>>, <<2, 2>>, <<3, 3>>, <<0, 1>>, <<1, 2>>, <<2, 3>>}

SparseImages ==
    {NdArray(<<GridH, GridW>>, [rc \in Cells |-> IF rc \in white THEN 255 ELSE 0]) :
        white \in SUBSET SparseCells}

\* block sizes: none, the smallest, the default, the pipeline's largest, and the even
\* numbers before them
CallBlockSizes == {0, 1, 2, 3, 10, 11, 30, 31}

\* the block sizes tried on every two-valued image
BitonalBlockSizes == {3, 10, 31}

CallCs == {0, 2, 9}

\* extents and resolutions for upscale_image
CallHeights == {1, 120, 400, 1200}
CallWidths == {1, 120, 240, 800, 999, 1000, 1600}
CallDpis == {36, 72, 96, 147, 300}

\* the widest image of a block-size computation
MaxWidth == 1700

\* angles near 0 that the lattice directions of the grid do not give: 0.4, 0.499,
\* 0.5, 0.6 and 2 degrees, with their cosine and sine in 1024ths
SmallAngles ==
    { [mdeg |-> 400,  cos |-> 1024, sin |-> 7],
      [mdeg |-> 499,  cos |-> 1024, sin |-> 9],
      [mdeg |-> 500,  cos |-> 1024, sin |-> 9],
      [mdeg |-> 600,  cos |-> 1024, sin |-> 11],
      [mdeg |-> 2000, cos |-> 1023, sin |-> 36] }

\* what cv2.minAreaRect(coords)[-1] gives for a rectangle tilted by a small angle
\* either way: t and 90 - t on cv2 >= 4.5.1, -t and t - 90 on older builds
RawAngles ==
    UNION {{t, AnglePlus90(AngleNeg(t)), AngleNeg(t), AngleMinus90(t)} : t \in SmallAngles}

\* the images with five or more white samples
DensePages == {image \in SparseImages : Cardinality(DeskewCoords(image)) >= 5}

\* widths of the files of two runs of process_image
RunWidths == {100, 400, 549, 550, 600, 999, 1000, 1049, 1050, 1549, 1550, 1600}

NewCall(method, args) == [method |-> method, args |-> args, returned |-> FALSE, result |-> None]

Calls ==
    {NewCall("apply_adaptive_threshold", [image |-> image, block_size |-> b, C |-> 2]) :
        image \in BitonalImages, b \in BitonalBlockSizes}
    \cup {NewCall("apply_adaptive_threshold", [image |-> image, block_size |-> b, C |-> C]) :
            image \in GrayImages, b \in CallBlockSizes, C \in CallCs}
    \cup {NewCall(m, [image |-> image]) :
            m \in {"detect_inverted_text", "detect_blur", "_estimate_noise"},
            image \in GrayImages \cup EmptyImages}
    \cup {NewCall("deskew_image", [image |-> image]) : image \in SparseImages}
    \cup {NewCall("upscale_image",
                  [image |-> NdArray(<<h, w>>, [rc \in Cells |-> 200]), target_dpi |-> dpi]) :
            h \in CallHeights, w \in CallWidths, dpi \in CallDpis}
    \cup {NewCall("invert_image", [image |-> image, inverse_of |-> None]) :
            image \in RampImages \cup BitonalImages}
    \cup {NewCall("block_size", [width |-> w]) : w \in 1 .. MaxWidth}
    \cup {NewCall("deskew_image:angle", [image |-> image, angle |-> raw]) :
            image \in DensePages, raw \in RawAngles}
    \cup {NewCall("process_image:block_size", [narrow |-> ws[1], wide |-> ws[2]]) :
            ws \in {p \in RunWidths \X RunWidths : p[1] < p[2]}}

InitCall ==
    /\ gui = NoGui
    /\ tts = NoTts
    /\ original_image = None
    /\ processed_image = None
    /\ grayscale_image = None
    /\ frame = << >>
    /\ call \in Calls

Calling(method) == call.method = method /\ ~call.returned

Return(result) ==
    /\ call' = [call EXCEPT !.returned = TRUE, !.result = result]
    /\ UNCHANGED <<gui, tts, original_image, processed_image, grayscale_image, frame>>

\* a value that is no array
Value(v) == [kind |-> "value", value |-> v]

CallApplyAdaptiveThreshold ==
    /\ Calling("apply_adaptive_threshold")
    /\ Return(apply_adaptive_threshold(call.args.image, call.args.block_size, call.args.C))

CallDetectInvertedText ==
    /\ Calling("detect_inverted_text")
    /\ Return(Value(detect_inverted_text(call.args.image)))

\* cv2.Laplacian of an array without samples: the builds of cv2 that assert
\* !_src.empty() raise cv2.error, the others return an array without samples
LaplacianRaises(image) == IF IsEmpty(image) THEN {TRUE, FALSE} ELSE {FALSE}

CallDetectBlur ==
    /\ Calling("detect_blur")
    /\ \E raises \in LaplacianRaises(call.args.image) :
          Return(IF raises THEN CvError("Laplacian") ELSE Value(detect_blur(call.args.image)))

CallEstimateNoise ==
    /\ Calling("_estimate_noise")
    /\ \E raises \in LaplacianRaises(call.args.image) :
          Return(IF raises THEN CvError("Laplacian") ELSE Value(estimate_noise(call.args.image)))

CallDeskewImage ==
    /\ Calling("deskew_image")
    /\ \E deskewed \in deskew_image(call.args.image) : Return(deskewed)

\* deskew_image from line 192 on, for a page whose rectangle of least area
\* cv2.minAreaRect reports at the given angle
CallDeskewFromAngle ==
    /\ Calling("deskew_image:angle")
    /\ Return(DeskewByAngle(call.args.image, call.args.angle))

CallUpscaleImage ==
    /\ Calling("upscale_image")
    /\ Return(upscale_image(call.args.image, call.args.target_dpi))

CallInvertImage ==
    /\ Calling("invert_image")
    /\ Return(invert_image(call.args.image))

\* invert_image called on what invert_image returned
CallInvertImageAgain ==
    /\ call.method = "invert_image"
    /\ call.returned
    /\ call.args.inverse_of = None
    /\ call' = [NewCall("invert_image", [image |-> call.result, inverse_of |-> call.args.image])
                   EXCEPT !.returned = TRUE, !.result = invert_image(call.result)]
    /\ UNCHANGED <<gui, tts, original_image, processed_image, grayscale_image, frame>>

\* step 11 of process_image, on an image of the given width
CallBlockSize ==
    /\ Calling("block_size")
    /\ Return(Value(BlockSize(call.args.width)))

\* steps 5 and 11 of process_image on a file of the given width: the stages
\* between them keep the shape of the image
RunBlockSize(width) ==
    LET gray == NdArray(<<400, width>>, [rc \in Cells |-> 200])
        upscaled == upscale_image(gray, 300)
    IN  BlockSize(upscaled.shape[2])

\* the block sizes of two runs of process_image, on a narrower and on a wider file
CallRunBlockSizes ==
    /\ Calling("process_image:block_size")
    /\ Return(Value([narrow |-> RunBlockSize(call.args.narrow),
                     wide |-> RunBlockSize(call.args.wide)]))

NextCall ==
    \/ CallApplyAdaptiveThreshold
    \/ CallDetectInvertedText
    \/ CallDetectBlur
    \/ CallEstimateNoise
    \/ CallDeskewImage
    \/ CallDeskewFromAngle
    \/ CallUpscaleImage
    \/ CallInvertImage
    \/ CallInvertImageAgain
    \/ CallBlockSize
    \/ CallRunBlockSizes

SpecCall == InitCall /\ [][NextCall]_vars

(***************************************************************************)
(* A session: calls of load_image and process_image, one after the other,  *)
(* on one ImageProcessor.  frame holds the frame of the process_image call *)
(* under way or last made, call the last direct call of load_image.        *)
(***************************************************************************)
SessionPaths ==
    { [pattern |-> "stroke", palette |-> 1, shape |-> <<400, 800>>],
      [pattern |-> "block",  palette |-> 2, shape |-> <<1200, 1600>>],
      MissingPath }

InitSession ==
    /\ gui = NoGui
    /\ tts = NoTts
    /\ original_image = None
    /\ processed_image = None
    /\ grayscale_image = None
    /\ frame = << >>
    /\ call = NoCall

\* no call is under way
Idle == \A t \in Invocations : frame[t].pc \in {"returned", "raised"}

\* processor.load_image(image_path), from call to return or raise
CallLoadImage(image_path) ==
    /\ Idle
    /\ original_image' = Imread(image_path)
    /\ call' = [NewCall("load_image", [image_path |-> image_path]) EXCEPT
                   !.returned = TRUE,
                   !.result = IF IsNone(original_image')
                              THEN LoadError(image_path)
                              ELSE original_image']
    /\ UNCHANGED <<gui, tts, processed_image, grayscale_image, frame>>

\* processor.process_image(image_path, apply_deskew) is called
CallProcessImage(image_path, apply_deskew) ==
    /\ Idle
    /\ frame' = <<NewFrame(image_path, apply_deskew)>>
    /\ call' = NoCall
    /\ UNCHANGED <<gui, tts, original_image, processed_image, grayscale_image>>

NextSession ==
    \/ \E image_path \in SessionPaths : CallLoadImage(image_path)
    \/ \E image_path \in SessionPaths, apply_deskew \in DeskewVar :
          CallProcessImage(image_path, apply_deskew)
    \/ \E t \in Invocations : Stage(t) \/ StageRaises(t)

SpecSession == InitSession /\ [][NextSession]_vars

\* what process_image(image_path, apply_deskew) can return for the image that
\* load_image gave it: steps 2 to 13, one stage on the result of the one before
process_image_results(image, apply_deskew) ==
    LET grays ==
            {IF detect_inverted_text(g) THEN invert_image(g) ELSE g :
                g \in {convert_to_grayscale(image)}}
        upscaleds ==
            {[is_dark |-> MeanBelow(g, 90), upscaled |-> upscale_image(g, 300)] : g \in grays}
        estimates ==
            {[is_dark     |-> s.is_dark,
              upscaled    |-> s.upscaled,
              blur_score  |-> detect_blur(s.upscaled),
              noise_level |-> estimate_noise(s.upscaled)] : s \in upscaleds}
        enhanceds ==
            {[enhanced |-> enhance_contrast(ApplyFilters(DenoiseFilters(s.noise_level),
                                                         s.upscaled),
                                            ContrastStrength(s.is_dark)),
              strength |-> SharpenStrength(Lt(s.blur_score, 100), Gt(s.noise_level, 15))] :
                s \in estimates}
        sharpeneds ==
            {IF s.strength = "skip" THEN s.enhanced ELSE sharpen_image(s.enhanced, s.strength) :
                s \in enhanceds}
        cleaneds ==
            {remove_small_noise(apply_adaptive_threshold(s, BlockSize(s.shape[2]), 2)) :
                s \in sharpeneds}
    IN  UNION {IF EqualsTrue(apply_deskew) THEN deskew_image(c) ELSE {c} : c \in cleaneds}

(***************************************************************************)
(* The VisionSpeakApp (src/gui.py).  The handlers open_image,              *)
(* process_image, run_ocr and process_and_ocr run on the main thread; the  *)
(* last three start a background task each, from a button, a menu entry    *)
(* or a keyboard shortcut.  update_button_states disables the buttons      *)
(* while processing_in_progress is set; the menu entries and the           *)
(* shortcuts stay bound.  A task takes process_image of the shared         *)
(* ImageProcessor in three steps: load_image, the stages on its local      *)
(* variables, and the store of the result.                                 *)
(***************************************************************************)
\* the background tasks of a behaviour
MaxTasks == 2

Tasks == 1 .. MaxTasks

\* the files the user opens
GuiPaths == ThreadPaths

\* what process_image can return for the image of each file, deskew_var being False
GuiResults ==
    [image \in {Imread(file_path) : file_path \in GuiPaths} |->
        process_image_results(image, "False")]

\* image_to_ocr when run_ocr takes the file itself
PathOf(image_path) == [kind |-> "path", path |-> image_path]

\* selected is the current_image_path at the time the handler started the task
NoTask ==
    [ kind         |-> "None",
      pc           |-> "unstarted",
      selected     |-> None,
      image        |-> None,
      processed    |-> None,
      image_to_ocr |-> None ]

InitGui ==
    /\ original_image = None
    /\ processed_image = None
    /\ grayscale_image = None
    /\ frame = << >>
    /\ call = NoCall
    /\ tts = NoTts
    /\ gui = [kind                   |-> "VisionSpeakApp",
              current_image_path     |-> None,
              current_text           |-> None,
              processing_in_progress |-> FALSE,
              task                   |-> [t \in Tasks |-> NoTask]]

\* open_image, the dialog giving file_path
open_image(file_path) ==
    /\ gui' = [gui EXCEPT !.current_image_path = PathOf(file_path), !.current_text = None]
    /\ UNCHANGED <<original_image, processed_image, grayscale_image, frame, call, tts>>

\* threading.Thread(target=..., daemon=True).start()
StartTask(kind, image_to_ocr) ==
    /\ \E t \in Tasks :
          /\ gui.task[t].pc = "unstarted"
          /\ \A u \in Tasks : u < t => gui.task[u].pc # "unstarted"
          /\ gui' = [gui EXCEPT !.task[t] =
                        [NoTask EXCEPT !.kind = kind,
                                       !.pc = "start",
                                       !.selected = gui.current_image_path,
                                       !.image_to_ocr = image_to_ocr]]
    /\ UNCHANGED <<original_image, processed_image, grayscale_image, frame, call, tts>>

\* VisionSpeakApp.process_image
StartProcessTask ==
    /\ ~IsNone(gui.current_image_path)
    /\ StartTask("process_task", None)

\* run_ocr, the user answering response when asked to process first
run_ocr(response) ==
    /\ ~IsNone(gui.current_image_path)
    /\ IF IsNone(processed_image)
       THEN IF response
            THEN StartTask("combined_task", None)
            ELSE StartTask("ocr_task", gui.current_image_path)
       ELSE StartTask("ocr_task", processed_image)

process_and_ocr ==
    /\ ~IsNone(gui.current_image_path)
    /\ StartTask("combined_task", None)

\* the task sets self.processing_in_progress = True
TaskBegin(t) ==
    /\ gui.task[t].pc = "start"
    /\ gui' = [gui EXCEPT !.processing_in_progress = TRUE,
                          !.task[t].pc = IF gui.task[t].kind = "ocr_task"
                                         THEN "recognize_text" ELSE "load_image"]
    /\ UNCHANGED <<original_image, processed_image, grayscale_image, frame, call, tts>>

\* image_processor.process_image(self.current_image_path, ...): load_image
TaskLoad(t) ==
    /\ gui.task[t].pc = "load_image"
    /\ original_image' = Imread(gui.current_image_path.path)
    /\ gui' = [gui EXCEPT !.task[t].image = original_image', !.task[t].pc = "stages"]
    /\ UNCHANGED <<processed_image, grayscale_image, frame, call, tts>>

\* steps 2 to 13 of process_image; deskew_var is False
TaskStages(t) ==
    /\ gui.task[t].pc = "stages"
    /\ grayscale_image' = convert_to_grayscale(gui.task[t].image)
    /\ \E cleaned \in GuiResults[gui.task[t].image] :
          gui' = [gui EXCEPT !.task[t].processed = cleaned, !.task[t].pc = "store"]
    /\ UNCHANGED <<original_image, processed_image, frame, call, tts>>

\* a library call of a stage fails: the task's except branch, then finally
TaskStageRaises(t) ==
    /\ gui.task[t].pc = "stages"
    /\ gui' = [gui EXCEPT !.task[t].pc = "finally"]
    /\ UNCHANGED <<original_image, processed_image, grayscale_image, frame, call, tts>>

\* self.processed_image = cleaned; return cleaned
TaskStore(t) ==
    /\ gui.task[t].pc = "store"
    /\ processed_image' = gui.task[t].processed
    /\ gui' = [gui EXCEPT
                  !.task[t].image_to_ocr = IF gui.task[t].kind = "combined_task"
                                           THEN gui.task[t].processed ELSE @,
                  !.task[t].pc = IF gui.task[t].kind = "combined_task"
                                 THEN "recognize_text" ELSE "finally"]
    /\ UNCHANGED <<original_image, grayscale_image, frame, call, tts>>

\* text = self.ocr_engine.recognize_text(image_to_ocr, ...); self.current_text = text
TaskRecognize(t) ==
    /\ gui.task[t].pc = "recognize_text"
    /\ gui' = [gui EXCEPT !.current_text = [kind |-> "text", of |-> gui.task[t].image_to_ocr],
                          !.task[t].pc = "finally"]
    /\ UNCHANGED <<original_image, processed_image, grayscale_image, frame, call, tts>>

\* finally: self.processing_in_progress = False
TaskFinally(t) ==
    /\ gui.task[t].pc = "finally"
    /\ gui' = [gui EXCEPT !.processing_in_progress = FALSE, !.task[t].pc = "done"]
    /\ UNCHANGED <<original_image, processed_image, grayscale_image, frame, call, tts>>

NextGui ==
    \/ \E file_path \in GuiPaths : open_image(file_path)
    \/ StartProcessTask
    \/ \E response \in BOOLEAN : run_ocr(response)
    \/ process_and_ocr
    \/ \E t \in Tasks :
          \/ TaskBegin(t)
          \/ TaskLoad(t)
          \/ TaskStages(t)
          \/ TaskStageRaises(t)
          \/ TaskStore(t)
          \/ TaskRecognize(t)
          \/ TaskFinally(t)

SpecGui == InitGui /\ [][NextGui]_vars

(***************************************************************************)
(* The TTSEngine (src/tts_engine.py): speak_async starts a speech thread   *)
(* for an utterance of some sentences, stop is called from the main        *)
(* thread.  playing is the set of threads whose sentence the audio device  *)
(* plays.  stopped_at and quiet record the calls for the properties:       *)
(* stopped_at[t] is the number of sentences thread t had begun when stop   *)
(* first stopped its utterance (-1: never), quiet holds from a stop of an  *)
(* utterance to the next speak request.                                    *)
(***************************************************************************)
\* the utterances of a behaviour, and the sentences of an utterance
MaxUtterances == 2
MaxSentences == 3

SpeechThreads == 1 .. MaxUtterances

NoThread == [pc |-> "unstarted", sentences |-> 0, i |-> 0, begun |-> 0]

InitTts ==
    /\ original_image = None
    /\ processed_image = None
    /\ grayscale_image = None
    /\ frame = << >>
    /\ call = NoCall
    /\ gui = NoGui
    /\ tts = [kind       |-> "TTSEngine",
              is_speaking |-> FALSE,
              playing     |-> {},
              thread      |-> [t \in SpeechThreads |-> NoThread],
              stopped_at  |-> [t \in SpeechThreads |-> -1],
              quiet       |-> FALSE]

is_busy == tts.is_speaking

\* the speech thread t speaks its utterance: it is in the loop of _speak
InProgress(t) == tts.thread[t].pc \in {"loop", "saying"}

\* stop() on the engine e: while is_speaking is set, engine.stop() and
\* pygame.mixer.music.stop() end what is playing
stop(e) ==
    IF e.is_speaking
    THEN [e EXCEPT !.playing = {},
                   !.is_speaking = FALSE,
                   !.stopped_at =
                       [t \in SpeechThreads |->
                           IF InProgress(t) /\ e.stopped_at[t] = -1 THEN e.thread[t].begun
                           ELSE e.stopped_at[t]],
                   !.quiet = TRUE]
    ELSE e

\* tts_engine.stop() from the main thread
Stop ==
    /\ tts' = stop(tts)
    /\ UNCHANGED <<original_image, processed_image, grayscale_image, frame, call, gui>>

\* speak_async(text) for a text of the given number of sentences
speak_async(sentences) ==
    /\ \E t \in SpeechThreads :
          /\ tts.thread[t].pc = "unstarted"
          /\ \A u \in SpeechThreads : u < t => tts.thread[u].pc # "unstarted"
          /\ tts' = [stop(tts) EXCEPT
                        !.thread[t] = [pc |-> "start", sentences |-> sentences,
                                       i |-> 1, begun |-> 0],
                        !.quiet = FALSE]
    /\ UNCHANGED <<original_image, processed_image, grayscale_image, frame, call, gui>>

\* _speak: self.is_speaking = True
SpeakBegin(t) ==
    /\ tts.thread[t].pc = "start"
    /\ tts' = [tts EXCEPT !.is_speaking = TRUE, !.thread[t].pc = "loop"]
    /\ UNCHANGED <<original_image, processed_image, grayscale_image, frame, call, gui>>

\* _speak: the next sentence starts to play
SpeakSay(t) ==
    /\ tts.thread[t].pc = "loop"
    /\ tts.thread[t].i <= tts.thread[t].sentences
    /\ tts' = [tts EXCEPT !.playing = @ \cup {t},
                          !.thread[t].begun = @ + 1,
                          !.thread[t].pc = "saying"]
    /\ UNCHANGED <<original_image, processed_image, grayscale_image, frame, call, gui>>

\* _speak: runAndWait() returns, or get_busy() is false: the sentence has played
\* to its end or has been stopped
SpeakSaid(t) ==
    /\ tts.thread[t].pc = "saying"
    /\ tts' = [tts EXCEPT !.playing = @ \ {t},
                          !.thread[t].i = @ + 1,
                          !.thread[t].pc = "loop"]
    /\ UNCHANGED <<original_image, processed_image, grayscale_image, frame, call, gui>>

\* _speak: the engine raises while a sentence plays; the except branch prints it
SpeakRaises(t) ==
    /\ tts.thread[t].pc = "saying"
    /\ tts' = [tts EXCEPT !.playing = @ \ {t},
                          !.thread[t].i = tts.thread[t].sentences + 1,
                          !.thread[t].pc = "loop"]
    /\ UNCHANGED <<original_image, processed_image, grayscale_image, frame, call, gui>>

\* _speak: finally: self.is_speaking = False
SpeakFinally(t) ==
    /\ tts.thread[t].pc = "loop"
    /\ tts.thread[t].i > tts.thread[t].sentences
    /\ tts' = [tts EXCEPT !.is_speaking = FALSE, !.thread[t].pc = "done"]
    /\ UNCHANGED <<original_image, processed_image, grayscale_image, frame, call, gui>>

NextTts ==
    \/ \E sentences \in 1 .. MaxSentences : speak_async(sentences)
    \/ Stop
    \/ \E t \in SpeechThreads :
          \/ SpeakBegin(t)
          \/ SpeakSay(t)
          \/ SpeakSaid(t)
          \/ SpeakRaises(t)
          \/ SpeakFinally(t)

SpecTts == InitTts /\ [][NextTts]_vars

(***************************************************************************)
(* The properties checked.                                                 *)
(***************************************************************************)
\* the stages of process_image in the order of its statements
StageOrder ==
    <<"load", "grayscale", "polarity", "invert", "brightness", "upscale", "blur", "noise",
      "denoise", "contrast", "sharpen", "threshold", "clean", "deskew">>

\* the first n stages of StageOrder an invocation with frame f enters
Entered(f, n) ==
    LET Runs(stage) == /\ stage = "invert" => f.is_inverted
                       /\ stage = "deskew" => EqualsTrue(f.apply_deskew)
    IN  SelectSeq(SubSeq(StageOrder, 1, n), Runs)

Returned(t) == frame[t].pc = "returned"

Raised(t) == frame[t].pc = "raised"

Samples(image) == {image.px[rc] : rc \in Cells}

\* C1: every sample of the image process_image returns is exactly 0 or 255, for every
\* input image and every apply_deskew setting, also when deskew rotates the image.
C1_ReturnedImageIsBitonal ==
    \A t \in Invocations : Returned(t) => Samples(frame[t].result) \subseteq {0, 255}

\* C2: an invocation enters the stages in the one order load, grayscale, polarity (invert
\* if inverted), brightness, upscale, blur, noise, denoise, contrast, sharpen, threshold,
\* clean, deskew (if forced), whatever the estimators found, and the image each stage
\* produced is computed from the image the stage before it produced.
C2_FixedStageOrder ==
    \A t \in Invocations :
        LET f == frame[t]
        IN  /\ \E n \in 0 .. Len(StageOrder) : f.trace = Entered(f, n)
            /\ Returned(t) =>
                  /\ \E gray \in {convert_to_grayscale(f.image)} :
                        f.gray = IF f.is_inverted THEN invert_image(gray) ELSE gray
                  /\ f.upscaled = upscale_image(f.gray, 300)
                  /\ f.denoised = ApplyFilters(f.filters, f.upscaled)
                  /\ f.enhanced = enhance_contrast(f.denoised, f.contrast)
                  /\ f.sharpened = IF f.sharpen = "skip" THEN f.enhanced
                                   ELSE sharpen_image(f.enhanced, f.sharpen)
                  /\ f.binary = apply_adaptive_threshold(f.sharpened, f.block_size, 2)
                  /\ \E cleaned \in {remove_small_noise(f.binary)} :
                        f.cleaned \in (IF EqualsTrue(f.apply_deskew)
                                        THEN deskew_image(cleaned)
                                        ELSE {cleaned})
                  /\ f.result = f.cleaned

\* an inverted page deskewed: every stage of the order was entered
C2_Witness ==
    \E t \in Invocations : Returned(t) /\ frame[t].trace = StageOrder

\* C3: an image whose grayscale mean is below 90 gets is_dark = true and strong
\* contrast enhancement.
C3_DarkImageGetsStrongContrast ==
    \A t \in Invocations :
        (frame[t].contrast # "" /\ MeanBelow(convert_to_grayscale(frame[t].image), 90))
            => frame[t].is_dark /\ frame[t].contrast = "strong"

\* C4 as stated: a noise estimate above 15 selects the three-filter cascade.
C4_NoisyTakesThreeFilters ==
    \A t \in Invocations :
        (frame[t].filters # << >> /\ Gt(frame[t].noise_level, 15))
            => frame[t].filters = <<"fastNlMeansDenoising", "medianBlur", "bilateralFilter">>

\* C4, amended: a noise estimate above 25 selects the three-filter cascade (non-local
\* means, median, bilateral); an estimate above 15 but not above 25 selects median then
\* bilateral; any other estimate selects the bilateral filter alone; and the denoised
\* image is that composition applied to the upscaled image.
C4_DenoiseTiers ==
    \A t \in Invocations :
        LET f == frame[t]
        IN  f.filters # << >> =>
              /\ Gt(f.noise_level, 25)
                    => f.filters = <<"fastNlMeansDenoising", "medianBlur", "bilateralFilter">>
              /\ (Gt(f.noise_level, 15) /\ ~Gt(f.noise_level, 25))
                    => f.filters = <<"medianBlur", "bilateralFilter">>
              /\ ~Gt(f.noise_level, 15) => f.filters = <<"bilateralFilter">>
              /\ f.is_noisy <=> Gt(f.noise_level, 15)
              /\ f.pc = "contrast" =>
                    \E first \in {IF Len(f.filters) = 3
                                   THEN FastNlMeansDenoising(f.upscaled) ELSE f.upscaled} :
                       \E second \in {IF Len(f.filters) >= 2 THEN MedianBlur5(first) ELSE first} :
                          f.denoised = BilateralFilter(second)

\* a noise estimate between the two thresholds, denoised with two filters
C4_Witness ==
    \E t \in Invocations :
        /\ Gt(frame[t].noise_level, 15) /\ ~Gt(frame[t].noise_level, 25)
        /\ frame[t].filters = <<"medianBlur", "bilateralFilter">>
        /\ frame[t].pc = "contrast"

\* C5: of two concurrent invocations, each processes the image its own path names and
\* never one the other invocation loaded.
C5_EachInvocationProcessesItsOwnImage ==
    \A t \in Invocations :
        ~IsNone(frame[t].image) => frame[t].image = Imread(frame[t].image_path)

\* C6: when the image cannot be loaded, process_image ends in load_image with a
\* ValueError, the kind no later stage raises; no stage after load is entered, nothing
\* is returned and no processed image is stored.
C6_LoadFailureIsDistinct ==
    \A t \in Invocations :
        LET f == frame[t]
        IN  /\ f.image_path = MissingPath =>
                  /\ f.pc \in {"load_imread", "load_check", "raised"}
                  /\ f.trace \in {<< >>, <<"load">>}
                  /\ IsNone(f.result) /\ IsNone(f.gray) /\ IsNone(f.cleaned)
                  /\ f.pc = "raised" => f.exception.kind = "ValueError"
            /\ (Raised(t) /\ f.exception.kind = "ValueError") => f.trace = <<"load">>
            /\ (Raised(t) /\ f.trace # <<"load">>) => f.exception.kind \in {"cv2.error", "MemoryError"}

\* the load of an unreadable file has failed
C6_Witness ==
    \E t \in Invocations :
        /\ frame[t].image_path = MissingPath
        /\ Raised(t)
        /\ frame[t].exception.kind = "ValueError"

C9_SpatialExtent ==
    \A t \in Invocations :
        LET f == frame[t]
            height == f.image_path.shape[1]
            width  == f.image_path.shape[2]
            extent == IF width >= 1000 THEN <<height, width>>
                      ELSE <<(height * 300) \div 72, (width * 300) \div 72>>
        IN  /\ ~IsNone(f.gray) => f.gray.shape = <<height, width>>
            /\ \A image \in {f.upscaled, f.denoised, f.enhanced, f.sharpened, f.binary,
                             f.cleaned, f.result} :
                  ~IsNone(image) => image.shape = extent

\* a narrow image has been upscaled, deskewed and returned
C9_Witness ==
    \E t \in Invocations :
        /\ Returned(t)
        /\ frame[t].image_path.shape[2] < 1000
        /\ frame[t].apply_deskew = "True"
        /\ frame[t].result.shape # frame[t].gray.shape

\* a call of method has returned (a value or an exception)
Called(method) == call.method = method /\ call.returned

\* a call of method has returned an array
ReturnedArray(method) == Called(method) /\ call.result.kind = "ndarray"

IsBitonal(image) == Samples(image) \subseteq {0, 255}

Estimators == {"detect_inverted_text", "detect_blur", "_estimate_noise"}

\* C11: an estimator called on an image without samples ends with an error, never
\* with a boolean or a number.
C11_EstimatorRejectsEmptyImage ==
    \A m \in Estimators :
        (Called(m) /\ IsEmpty(call.args.image)) => call.result.kind = "cv2.error"

\* C12: every sample of an image apply_adaptive_threshold returns is 0 or 255, whatever
\* the grayscale input, the block size and C.
C12_ThresholdIsBitonal ==
    ReturnedArray("apply_adaptive_threshold") =>
        /\ \A rc \in Cells : call.result.px[rc] \in {0, 255}
        /\ call.result.shape = call.args.image.shape

\* a grayscale image with other levels than 0 and 255 has come back in black and white
C12_Witness ==
    /\ ReturnedArray("apply_adaptive_threshold")
    /\ Samples(call.args.image) \cap {0, 255} = {}
    /\ Samples(call.result) = {0, 255}

\* C13: deskew_image returns an image with fewer than 5 non-zero samples as it is;
\* no angle is involved, so the outcome is the same on every build of cv2.
C13_FewPointsUnchanged ==
    (Called("deskew_image") /\ Cardinality({rc \in Cells : call.args.image.px[rc] # 0}) < 5) =>
        /\ call.result = call.args.image
        /\ deskew_image(call.args.image) = {call.args.image}

\* four white samples on a diagonal, returned as they were
C13_Witness ==
    /\ Called("deskew_image")
    /\ {rc \in Cells : call.args.image.px[rc] # 0} = {<<0, 0>>, <<1, 1>>, <<2, 2>>, <<3, 3>>}
    /\ call.result = call.args.image

\* the quotient floor(dimension * target_dpi / 72)
ExactScaled(dimension, target_dpi) == (dimension * target_dpi) \div 72

\* C14 as stated: an upscaled image is floor(width * target_dpi / 72) wide and
\* floor(height * target_dpi / 72) high.
C14_UpscaleFloorExtent ==
    Called("upscale_image") =>
        LET height == call.args.image.shape[1]
            width  == call.args.image.shape[2]
            dpi    == call.args.target_dpi
        IN  IF width < 1000 /\ dpi > 72
            THEN call.result.shape = <<ExactScaled(height, dpi), ExactScaled(width, dpi)>>
            ELSE call.result = call.args.image

\* C14, amended: upscale_image returns its input unchanged unless the width is below
\* 1000 and target_dpi exceeds 72; then each dimension d becomes int(d * (target_dpi / 72))
\* computed in double precision, which is floor(d * target_dpi / 72), or one less than it
\* where d * target_dpi is a multiple of 72; the output is never smaller than the input.
C14_UpscaleExtent ==
    Called("upscale_image") =>
        LET height == call.args.image.shape[1]
            width  == call.args.image.shape[2]
            dpi    == call.args.target_dpi
            Scaled(d, new) == \/ new = ExactScaled(d, dpi)
                              \/ new = ExactScaled(d, dpi) - 1 /\ (d * dpi) % 72 = 0
        IN  /\ IF width < 1000 /\ dpi > 72
               THEN /\ Scaled(height, call.result.shape[1])
                    /\ Scaled(width, call.result.shape[2])
               ELSE call.result = call.args.image
            /\ call.result.shape[1] >= height
            /\ call.result.shape[2] >= width

\* an image 120 wide upscaled for 147 dpi is 244 wide, one less than 120 * 147 / 72
C14_Witness ==
    /\ Called("upscale_image")
    /\ call.args.image.shape[2] = 120
    /\ call.args.target_dpi = 147
    /\ call.result.shape[2] = 244

\* the number of times stage occurs in trace
Count(trace, stage) == Cardinality({i \in 1 .. Len(trace) : trace[i] = stage})

\* the invocation with frame f has entered stage and has come out of it without an
\* exception
Completed(f, stage) ==
    /\ Count(f.trace, stage) = 1
    /\ ~(f.pc = "raised" /\ f.trace[Len(f.trace)] = stage)

\* C15: the polarity check is true exactly when the mean of the grayscale image is
\* strictly below 127, and process_image inverts the grayscale image once exactly then.
C15_InvertedBelow127 ==
    \A t \in Invocations :
        LET f == frame[t]
        IN  Completed(f, "polarity") =>
              /\ f.is_inverted <=> SumCells(grayscale_image.px) < 127 * Size
              /\ Count(f.trace, "invert") = (IF f.is_inverted THEN 1 ELSE 0)
              /\ f.pc = "brightness" =>
                    f.gray = (IF f.is_inverted
                              THEN NdArray(grayscale_image.shape,
                                           [rc \in Cells |-> 255 - grayscale_image.px[rc]])
                              ELSE grayscale_image)

\* an image whose mean is exactly 127 has been processed without an inversion
C15_Witness ==
    \E t \in Invocations :
        /\ Returned(t)
        /\ SumCells(grayscale_image.px) = 127 * Size
        /\ ~frame[t].is_inverted
        /\ Count(frame[t].trace, "invert") = 0

\* C16: invert_image of what invert_image returned is the image first passed.
C16_InvertTwice ==
    (Called("invert_image") /\ call.args.inverse_of # None) =>
        /\ call.result = call.args.inverse_of
        /\ \A rc \in Cells : call.args.image.px[rc] = 255 - call.result.px[rc]

\* an image of many gray levels has been inverted twice
C16_Witness ==
    /\ Called("invert_image")
    /\ call.args.inverse_of # None
    /\ Cardinality(Samples(call.result)) = Size
    /\ call.result = call.args.inverse_of

\* C17 as stated: every even block size b is accepted and thresholds as b + 1 does.
C17_EvenBlockSizeNeverRejected ==
    (Called("apply_adaptive_threshold") /\ call.args.block_size % 2 = 0) =>
        /\ call.result.kind = "ndarray"
        /\ call.result = AdaptiveThresholdGaussian(call.args.image, call.args.block_size + 1,
                                                   call.args.C)

\* C17, amended: with an even block size b apply_adaptive_threshold does what it does
\* with b + 1; for b >= 2 that is a thresholded image, for b = 0 it is the cv2.error
\* with which cv2 rejects the block size 1.
C17_EvenBlockSizeAsNextOdd ==
    (Called("apply_adaptive_threshold") /\ call.args.block_size % 2 = 0) =>
        /\ call.result = AdaptiveThresholdGaussian(call.args.image, call.args.block_size + 1,
                                                   call.args.C)
        /\ call.result.kind = (IF call.args.block_size >= 2 THEN "ndarray" ELSE "cv2.error")

\* a call with block size 10 has returned a thresholded image
C17_Witness ==
    /\ ReturnedArray("apply_adaptive_threshold")
    /\ call.args.block_size = 10
    /\ Samples(call.result) = {0, 255}

\* C18: the sharpen stage follows from the blur score and the noise level of the
\* upscaled image: skipped when the noise level is above 15, strong when it is not and
\* the blur score is below 100, normal otherwise.
C18_SharpenChoice ==
    \A t \in Invocations :
        LET f == frame[t]
            variance == Var(Laplacian(f.upscaled))
            noisy  == variance.num > 150 * variance.den
            blurry == variance.num < 100 * variance.den
        IN  Completed(f, "sharpen") =>
              /\ noisy => f.sharpen = "skip" /\ f.sharpened = f.enhanced
              /\ (~noisy /\ blurry) => f.sharpen = "strong"
              /\ (~noisy /\ ~blurry) => f.sharpen = "normal"
              /\ (f.pc = "threshold" /\ f.sharpen = "strong")
                    => f.sharpened = Filter2D(f.enhanced, KernelStrong, 2, 8)
              /\ (f.pc = "threshold" /\ f.sharpen = "normal")
                    => f.sharpened = Filter2D(f.enhanced, KernelNormal, 1, 1)

\* an image neither noisy nor blurry has been sharpened with the normal kernel
C18_Witness ==
    \E t \in Invocations :
        /\ Returned(t)
        /\ frame[t].sharpen = "normal"
        /\ ~frame[t].is_noisy
        /\ ~frame[t].is_blurry

\* the number of filters of the tier of a noise level
Tier(noise_level) == IF Gt(noise_level, 25) THEN 3 ELSE IF Gt(noise_level, 15) THEN 2 ELSE 1

\* C19: the denoise filters follow from the tier of the noise level, one filter up to
\* 15, two up to 25, three above, and a higher noise level never has fewer filters.
C19_FiltersGrowWithNoise ==
    \A t \in Invocations :
        LET f == frame[t]
        IN  Completed(f, "denoise") =>
              /\ Len(f.filters) = Tier(f.noise_level)
              /\ f.filters = SubSeq(<<"fastNlMeansDenoising", "medianBlur", "bilateralFilter">>,
                                    4 - Len(f.filters), 3)
              /\ \A k \in 0 .. 100 :
                    LET level == [num |-> k, den |-> 1]
                    IN  /\ ~Lt(f.noise_level, k)
                              => Len(DenoiseFilters(level)) <= Len(f.filters)
                        /\ ~Gt(f.noise_level, k)
                              => Len(DenoiseFilters(level)) >= Len(f.filters)

\* an invocation has denoised with median then bilateral
C19_Witness ==
    \E t \in Invocations :
        /\ Returned(t)
        /\ Tier(frame[t].noise_level) = 2
        /\ Len(frame[t].filters) = 2

\* C20: the block size of step 11 is odd, lies in 11 .. 31, and is floor(width / 50)
\* clamped to 11 .. 31 and raised by one when even.
C20_BlockSizeOddAndClamped ==
    Called("block_size") =>
        LET width   == call.args.width
            clamped == IF width \div 50 < 11 THEN 11
                       ELSE IF width \div 50 > 31 THEN 31 ELSE width \div 50
        IN  /\ call.result.value % 2 = 1
            /\ call.result.value \in 11 .. 31
            /\ call.result.value = clamped + (IF clamped % 2 = 0 THEN 1 ELSE 0)

\* a width of 1000 gives 20, raised to 21
C20_Witness ==
    /\ Called("block_size")
    /\ call.args.width = 1000
    /\ call.result.value = 21

(***************************************************************************)
(* C21: across runs of process_image a wider file never gets a smaller     *)
(* block size than a narrower file.  As stated this fails: a file 999 wide *)
(* is upscaled to 4162 and gets 31, a file 1000 wide is not upscaled and   *)
(* gets 21.                                                                *)
(***************************************************************************)
C21_BlockSizeGrowsWithInputWidth ==
    Called("process_image:block_size") =>
        call.result.value.narrow <= call.result.value.wide

\* C21, amended: the block size is non-decreasing in the width of the file
\* among the files that are upscaled (narrower than 1000) and among the files
\* that are not (1000 wide or wider); a file that is upscaled may get a larger
\* block size than a wider file that is not.
C21_BlockSizeGrowsWithinUpscaleClass ==
    Called("process_image:block_size") =>
        LET narrow == call.args.narrow
            wide   == call.args.wide
        IN  ((narrow < 1000) <=> (wide < 1000)) =>
                call.result.value.narrow <= call.result.value.wide

C21_Witness ==
    /\ Called("process_image:block_size")
    /\ call.args.narrow = 1000
    /\ call.args.wide = 1600
    /\ call.result.value = [narrow |-> 21, wide |-> 31]

(***************************************************************************)
(* C22: when process_image runs deskew on its binarized image, the         *)
(* coordinates the skew angle is estimated from are exactly the text       *)
(* pixels of that image, its black samples of value 0, not the background. *)
(* The image is black text on white and deskew_image takes the coordinates *)
(* where image > 0, which are the white background samples.                *)
(***************************************************************************)
C22_DeskewCoordsAreTextPixels ==
    \A t \in Invocations :
        LET f == frame[t]
        IN  (f.pc = "deskew" /\ EqualsTrue(f.apply_deskew)) =>
                DeskewCoords(f.cleaned) = {rc \in Cells : f.cleaned.px[rc] = 0}

\* the corrected angle of lines 192 to 196, in thousandths of a degree
Corrected(raw_mdeg) == IF raw_mdeg < -45000 THEN -(90000 + raw_mdeg) ELSE -raw_mdeg

\* what C23 expects of deskew_image for the angle cv2.minAreaRect gave
Deskewed(image, raw) ==
    IF Abs(Corrected(raw.mdeg)) < 500
    THEN image
    ELSE WarpAffineCubic(image, RotationCentre,
                         IF raw.mdeg < -45000 THEN AngleNeg(AnglePlus90(raw)) ELSE AngleNeg(raw),
                         <<image.shape[2], image.shape[1]>>)

C24_CorrectedAngleWithin45 ==
    /\ Called("deskew_image:angle") =>
          Abs(NormalizeAngle(call.args.angle).mdeg) <= 45000
    /\ (Called("deskew_image") /\ Cardinality(DeskewCoords(call.args.image)) >= 5) =>
          \A raw \in MinAreaRectAngles(DeskewCoords(call.args.image)) :
              \/ Abs(NormalizeAngle(raw).mdeg) <= 45000
              \/ call.result # DeskewByAngle(call.args.image, raw)

\* C25: in every run of process_image the grayscale image after the polarity step
\* has a mean of at least 127 when is_dark is computed, so is_dark is never true.
C25_BrightAfterPolarity ==
    \A t \in Invocations :
        LET f == frame[t]
        IN  /\ (Completed(f, "polarity") /\ f.pc = "brightness") =>
                  SumCells(f.gray.px) >= 127 * Size
            /\ Completed(f, "brightness") =>
                  /\ SumCells(f.gray.px) >= 127 * Size
                  /\ ~f.is_dark

\* a page with a mean below 90 has been inverted and is not dark when is_dark is computed
C25_Witness ==
    \E t \in Invocations :
        LET f == frame[t]
        IN  /\ Completed(f, "brightness")
            /\ SumCells(grayscale_image.px) < 90 * Size
            /\ f.is_inverted
            /\ SumCells(f.gray.px) > 128 * Size
            /\ ~f.is_dark

\* C26: process_image classifies no image as both blurry and noisy: the blur score
\* and the noise level come from the same variance of the same image (the noise
\* level is min(100, blur score / 10)), a score below 100 gives a level below 10,
\* and so strong sharpening is selected exactly when is_blurry holds.
C26_NeverBlurryAndNoisy ==
    \A t \in Invocations :
        LET f == frame[t]
        IN  /\ Completed(f, "noise") =>
                  /\ ~(f.is_blurry /\ f.is_noisy)
                  /\ f.is_blurry <=> Lt(f.blur_score, 100)
                  /\ f.is_noisy <=> Gt(f.blur_score, 150)
                  /\ IF Lt(f.blur_score, 1000)
                     THEN f.noise_level.num * 10 * f.blur_score.den
                              = f.blur_score.num * f.noise_level.den
                     ELSE f.noise_level = [num |-> 100, den |-> 1]
            /\ Completed(f, "sharpen") => (f.sharpen = "strong" <=> f.is_blurry)

\* a blurry image, with a blur score above 15, has been sharpened strongly
C26_Witness ==
    \E t \in Invocations :
        LET f == frame[t]
        IN  /\ Returned(t)
            /\ f.is_blurry
            /\ Gt(f.blur_score, 15)
            /\ ~f.is_noisy
            /\ f.sharpen = "strong"

(***************************************************************************)
(* C27: after any sequence of load_image and process_image calls on one    *)
(* ImageProcessor, whenever original_image and processed_image are both    *)
(* set, processed_image is the pipeline result of the stored               *)
(* original_image.  load_image replaces original_image and nothing clears  *)
(* processed_image, so after a call that loads another image and does not  *)
(* reach the last statement of process_image the two describe different    *)
(* images.                                                                 *)
(***************************************************************************)
C27_ProcessedIsOfOriginal ==
    (Idle /\ ~IsNone(original_image) /\ ~IsNone(processed_image)) =>
        \E apply_deskew \in DeskewVar :
            processed_image \in process_image_results(original_image, apply_deskew)

(***************************************************************************)
(* C30: after stop() is called while a speak_async utterance is in         *)
(* progress, the speech thread speaks no further sentence of that          *)
(* utterance, and is_busy() stays false until a new speak request.         *)
(* stop() ends the sentence that plays and clears is_speaking, but the     *)
(* loop of _speak tests nothing and goes on to the next sentence.          *)
(***************************************************************************)
C30_StopEndsUtterance ==
    /\ \A t \in SpeechThreads :
          tts.stopped_at[t] # -1 => tts.thread[t].begun = tts.stopped_at[t]
    /\ tts.quiet => ~is_busy

(***************************************************************************)
(* C28: after open_image has selected a new image, run_ocr hands the       *)
(* recognizer either the processed result of that image or the image       *)
(* itself, never a processed image derived from an image opened before.    *)
(* open_image clears the canvas and the text but not                       *)
(* image_processor.processed_image, and run_ocr takes whatever is there.   *)
(***************************************************************************)
C28_OcrOfSelectedImage ==
    \A t \in Tasks :
        LET task == gui.task[t]
        IN  task.kind = "ocr_task" =>
                \/ task.image_to_ocr = task.selected
                \/ /\ task.image_to_ocr.kind = "ndarray"
                   /\ task.image_to_ocr \in GuiResults[Imread(task.selected.path)]

\* the task has set processing_in_progress and has not reached its finally branch
Running(t) == gui.task[t].pc \in {"load_image", "stages", "store", "recognize_text"}

(***************************************************************************)
(* C29: under every interleaving of process_image, run_ocr and             *)
(* process_and_ocr requests, processing_in_progress is true whenever a     *)
(* background task is still running, and at most one background task at a  *)
(* time is in process_image of the shared ImageProcessor.  The menu        *)
(* entries and the shortcuts start a second task while one runs; the       *)
(* first to end clears the flag.                                           *)
(***************************************************************************)
C29_OneTaskAndFlagSet ==
    /\ (\E t \in Tasks : Running(t)) => gui.processing_in_progress
    /\ Cardinality({t \in Tasks : gui.task[t].pc \in {"stages", "store"}}) <= 1

====
